---- MODULE Spec2Model ----
(***************************************************************************)
(* Model of lum1n0/monitoring_docker (back_py/monitor/main).               *)
(*                                                                         *)
(* Part 1: Docker reconciliation (SyncDockerDataView.post and the          *)
(*         sync_docker management command) over the persisted tables      *)
(*         DockerHost, DockerContainer and DockerContainerMetric.          *)
(* Part 2: the metrics WebSocket consumer (DockerMetricsConsumer).         *)
(***************************************************************************)
EXTENDS Integers, Sequences, FiniteSets, TLC

(***************************************************************************)
(* Bounds of the model.                                                    *)
(***************************************************************************)
\* Largest number of DockerContainerMetric rows kept per container.
MaxSamples == 1
\* Largest value of a cumulative CPU-time counter in a stats document.
MaxCounter == 2
\* Largest number of lines of a log text.
MaxLines == 5
\* Largest number of occurrences of one Kubernetes event.
MaxOccur == 2

(***************************************************************************)
(* Universe.                                                               *)
(***************************************************************************)
Hosts == {"h1", "h2"}
Procs == {"p1", "p2"}
\* Container ids, in the order the runtime lists them.
IdOrder == <<"a", "b", "c">>
Ids == {IdOrder[k] : k \in 1..Len(IdOrder)}

\* A live descriptor is [id, kind]. kind is the descriptor's status when the
\* row can be written ("running", "exited"); "malformed" is a descriptor
\* whose update_or_create raises (a value the column rejects).
Statuses == {"running", "exited"}
Kinds == Statuses \cup {"malformed"}
Entries == {"view", "command"}

RECURSIVE SnapshotsFrom(_)
\* Every list get_all_containers can return: a sub-list of IdOrder from
\* position k on, each listed container with one of the kinds.
SnapshotsFrom(k) ==
    IF k > Len(IdOrder) THEN {<< >>}
    ELSE LET rest == SnapshotsFrom(k + 1)
         IN  rest \cup {<<[id |-> IdOrder[k], kind |-> kd]>> \o s :
                          kd \in Kinds, s \in rest}
Snapshots == SnapshotsFrom(1)

LiveIds(live) == {live[k].id : k \in 1..Len(live)}
WellFormedIds(live) == {live[k].id : k \in {j \in 1..Len(live) : live[j].kind # "malformed"}}
MalformedIds(live) == {live[k].id : k \in {j \in 1..Len(live) : live[j].kind = "malformed"}}

\* Outcome of DockerService(host_url) followed by get_all_containers():
\*   connfail  - the constructor raises DockerException (ping failed)
\*   listfail  - containers.list raises DockerException
\*   parsefail - _parse_container_info raises (KeyError on a descriptor)
ConnOutcomes == {"ok", "connfail", "listfail", "parsefail"}
\* Outcome of get_container_stats: a stats dict, None, or an exception.
StatsOutcomes == {"ok", "absent", "raises"}

VARIABLES
    hostActive,   \* DockerHost.is_active, per host
    containers,   \* DockerContainer rows: host -> id -> "absent" | status
    metrics,      \* DockerContainerMetric rows: host -> id -> number of rows
    pass,         \* the reconciliation pass each worker is executing
    workers,      \* the workers (request threads, command runs) in use
    \* one WebSocket connection of DockerMetricsConsumer
    ws,           \* "connecting" | "authenticating" | "streaming" | "closed"
    tok,          \* the token of the query string, by what it resolves to
    closeCode,    \* the code of the server's close(), 0 when it sent none
    accepted,     \* accept() was called
    disconnected, \* disconnect(code) has run
    taskPc,       \* where the stream() task stands
    cancelPending,\* task.cancel() was called and is not yet delivered
    responses,    \* the tick's four responses (cpu, mem, rx, tx)
    payload,      \* the tick's composed payload, per dimension
    tickMsgs,     \* the messages sent during the current tick
    tickErr,      \* why the current tick entered "except Exception"
    cancelledAt,  \* the await at which CancelledError was delivered
    \* one call of DockerService.get_container_stats
    statsDoc,     \* the document container.stats(stream=False) answers with
    statsResult,  \* what the call produced
    \* one call of DockerService.get_all_containers
    attrs,        \* container.attrs of the container the runtime lists
    unitInfo,     \* what the call produced
    \* calls of update_or_create by concurrent handlers
    rowCount,     \* table -> key -> number of rows with the key
    uoc,          \* worker -> where it is in its update_or_create call
    \* one call of parse_logs_and_save_errors
    logs,         \* the log text, as its lines
    parser,       \* the locals of the call: position, buf, capturing, count
    errorRows,    \* the ContainerError rows the call created, in order
    \* one call of DockerService._auto_detect_connection
    detect,       \* the platform, what each transport answers, the attempts
    \* the display name of one series in to_series
    naming,       \* the label of the series, and the name derived from it
    \* the Kubernetes sync (SyncKubernetesDataView.post) of one cluster
    kubeLive,     \* what the cluster's API lists: namespaces, pods, events
    kubeDb,       \* the Namespace, Pod, Container and Event rows
    kpass         \* the sync pass in progress

syncVars == <<hostActive, containers, metrics, pass, workers>>
streamVars == <<ws, tok, closeCode, accepted, disconnected, taskPc,
                cancelPending, responses, payload, tickMsgs, tickErr,
                cancelledAt>>
statsVars == <<statsDoc, statsResult, attrs, unitInfo>>
logVars == <<logs, parser, errorRows>>
detectVars == <<detect>>
nameVars == <<naming>>
kubeVars == <<kubeLive, kubeDb, kpass>>
tableVars == <<rowCount, uoc>>
vars == <<hostActive, containers, metrics, pass, workers,
          ws, tok, closeCode, accepted, disconnected, taskPc,
          cancelPending, responses, payload, tickMsgs, tickErr, cancelledAt,
          statsDoc, statsResult, attrs, unitInfo, logs, parser, errorRows, detect, naming,
          kubeLive, kubeDb, kpass, rowCount, uoc>>
\* What an action of one component leaves alone in the other components.
nonSyncVars ==
    <<streamVars, statsVars, logVars, detectVars, nameVars, kubeVars, tableVars>>
nonStreamVars ==
    <<syncVars, statsVars, logVars, detectVars, nameVars, kubeVars, tableVars>>
nonStatsVars ==
    <<syncVars, streamVars, logVars, detectVars, nameVars, kubeVars, tableVars>>
nonLogVars ==
    <<syncVars, streamVars, statsVars, detectVars, nameVars, kubeVars, tableVars>>
nonDetectVars ==
    <<syncVars, streamVars, statsVars, logVars, nameVars, kubeVars, tableVars>>
nonKubeVars ==
    <<syncVars, streamVars, statsVars, logVars, detectVars, nameVars, tableVars>>
nonNameVars ==
    <<syncVars, streamVars, statsVars, logVars, detectVars, kubeVars, tableVars>>
nonTableVars ==
    <<syncVars, streamVars, statsVars, logVars, detectVars, nameVars, kubeVars>>

RECURSIVE SumOver(_, _)
SumOver(f, S) ==
    IF S = {} THEN 0
    ELSE LET x == CHOOSE y \in S : TRUE IN f[x] + SumOver(f, S \ {x})

\* DockerContainer.objects.filter(host=host) as a set of container ids.
Persisted(h) == {c \in Ids : containers[h][c] # "absent"}

IdlePass ==
    [pc |-> "idle", entry |-> "view", host |-> "h1", live |-> << >>, i |-> 1,
     skipMetrics |-> FALSE, ids |-> {}, synced |-> 0, metricsCount |-> 0,
     removed |-> 0, result |-> "none", conn |-> "ok",
     \* the hosts the command has still to go through
     todo |-> << >>,
     \* history of the pass, read by the properties only
     before |-> {}, created |-> {}, updated |-> {}, deleted |-> {},
     statsFailed |-> {}, pruned |-> FALSE, rank |-> 0, prior |-> << >>,
     repeat |-> FALSE, first |-> [c \in Ids |-> "absent"],
     firstMetrics |-> [c \in Ids |-> 0]]

(***************************************************************************)
(* The stream: universe.                                                   *)
(***************************************************************************)
\* close(code=4401)
RejectCode == 4401

\* cpu, mem, rx, tx = responses
Dims == {"cpu", "memory", "netrx", "nettx"}

\* What the token of the query string resolves to: no token parameter, a key
\* with no Token row, the token of an enabled user, the token of a user
\* whose is_active is False.
TokenKinds == {"none", "unknown", "valid", "disabled"}

(***************************************************************************)
(* The display name: universe.                                             *)
(***************************************************************************)
\* A label is the sequence of its characters.
Slash == "/"
ScopeSuffix == <<".", "s", "c", "o", "p", "e">>
DockerPrefix == <<"d", "o", "c", "k", "e", "r", "-">>
Unknown == <<"u", "n", "k", "n", "o", "w", "n">>

\* The parts the labels are put together from: a path in front (or none),
\* the prefix "docker-" (or none), a name, the suffix ".scope" (or none).
PathParts == {<< >>, <<"/">>, <<"/", "s", "y", "s", "t", "e", "m", ".", "s", "l", "i", "c", "e", "/">>, <<"a", "/", "b", "/">>}
LongHash == <<"a", "b", "1", "2", "c", "d", "3", "4", "e", "f", "5", "6", "g", "h", "7", "8">>
Hash12 == <<"a", "b", "1", "2", "c", "d", "3", "4", "e", "f", "5", "6">>
Hash13 == <<"a", "b", "1", "2", "c", "d", "3", "4", "e", "f", "5", "6", "g">>
MyService == <<"m", "y", "-", "s", "e", "r", "v", "i", "c", "e">>
LongService == <<"m", "y", "-", "v", "e", "r", "y", "-", "l", "o", "n", "g", "-", "s", "e", "r", "v", "i", "c", "e">>
NameParts == {<< >>, <<"a">>, LongHash, Hash12, Hash13, MyService, LongService}

LabelParts ==
    [path : PathParts, docker : BOOLEAN, name : NameParts, scope : BOOLEAN,
     present : {TRUE}]
    \cup
    [path : {<< >>}, docker : {FALSE}, name : {<< >>}, scope : {FALSE},
     present : {FALSE}]

\* metric["name"] of the parts; a metric without the label has none.
LabelOf(p) ==
    IF ~p.present THEN << >>
    ELSE <<p.path \o (IF p.docker THEN DockerPrefix ELSE << >>) \o p.name
           \o (IF p.scope THEN ScopeSuffix ELSE << >>)>>

\* The value strings of a Prometheus sample (m["value"][1]); "x" is one
\* float() cannot parse.
RawValues == {"0", "3", "5", "x"}
FloatParses(v) == v # "x"
FloatOf(v) == CASE v = "0" -> 0 [] v = "3" -> 3 [] v = "5" -> 5 [] OTHER -> 0

\* One element m of data.result: m["metric"]["name"] (or no such label) and
\* m["value"][1].
Sample(label, v) == [name |-> label, value |-> v]
ScopeLabel ==
    <<<<"/", "s", "y", "s", "t", "e", "m", ".", "s", "l", "i", "c", "e", "/">>
      \o DockerPrefix \o LongHash \o ScopeSuffix>>
ServiceLabel == <<MyService>>

\* The result lists of the successful responses the model draws from.
Bodies ==
    {<< >>,
     <<Sample(ServiceLabel, "0")>>,
     <<Sample(ScopeLabel, "3")>>,
     <<Sample(ScopeLabel, "3"), Sample(ServiceLabel, "0")>>,
     <<Sample(<< >>, "x"), Sample(ServiceLabel, "5")>>,
     <<Sample(ServiceLabel, "3"), Sample(ServiceLabel, "5")>>}

\* A settled sub-query: a response with status "success" and a result list,
\* an exception object returned by gather (a timeout is one), a response
\* whose status is not "success", a response whose body json() rejects.
Failures == {"exception", "error_status", "malformed"}
Pending == [kind |-> "pending", body |-> << >>]
Responses == [kind : Failures, body : {<< >>}] \cup [kind : {"ok"}, body : Bodies]

NoPayload == [d \in Dims |-> << >>]

SyncInit ==
    /\ hostActive = [h \in Hosts |-> h = "h1"]
    /\ containers = [h \in Hosts |-> [c \in Ids |-> "absent"]]
    /\ metrics = [h \in Hosts |-> [c \in Ids |-> 0]]
    /\ pass = [p \in Procs |-> IdlePass]
    /\ workers = {"p1"}

StreamInit ==
    /\ ws = "connecting"
    /\ tok = "none"
    /\ closeCode = 0
    /\ accepted = FALSE
    /\ disconnected = FALSE
    /\ taskPc = "none"
    /\ cancelPending = FALSE
    /\ responses = [d \in Dims |-> Pending]
    /\ payload = NoPayload
    /\ tickMsgs = << >>
    /\ tickErr = "none"
    /\ cancelledAt = "none"

(***************************************************************************)
(* The stats call: universe.                                               *)
(***************************************************************************)
\* A key of a JSON object that may be missing: << >> or <<value>>.
Opt(S) == {<< >>} \cup {<<v>> : v \in S}
Missing(o) == o = << >>
\* dict.get(key, default)
Get(o, default) == IF o = << >> THEN default ELSE o[1]

\* Values of the cumulative CPU-time counters.
Counters == 0..MaxCounter

\* The raw stats document, by the keys get_container_stats reads:
\*   fetch       - containers.get / container.stats answer, or raise
\*   total       - cpu_stats.cpu_usage.total_usage
\*   system      - cpu_stats.system_cpu_usage
\*   pre_total   - precpu_stats.cpu_usage.total_usage
\*   pre_system  - precpu_stats.system_cpu_usage
\*   online_cpus - cpu_stats.online_cpus
\*   percpu      - len(cpu_stats.cpu_usage.percpu_usage)
\*   usage, limit - memory_stats.usage, memory_stats.limit
StatsDocs ==
    [fetch : {"ok"}, total : Counters, system : Opt(Counters),
     pre_total : Opt(Counters), pre_system : Opt(Counters),
     online_cpus : Opt({2}), percpu : Opt({0, 3}),
     usage : Opt({0, 3}), limit : Opt({0, 2})]
    \cup
    [fetch : {"NotFound", "DockerException"}, total : {0}, system : {<< >>},
     pre_total : {<< >>}, pre_system : {<< >>},
     online_cpus : {<< >>}, percpu : {<< >>},
     usage : {<< >>}, limit : {<< >>}]

\* An exact quotient n / d (d > 0), the value of a float expression.
Zero == [n |-> 0, d |-> 1]
NoStats ==
    [outcome |-> "none", cpu_percent |-> Zero, memory_percent |-> Zero,
     cpu_usage_percent |-> 0, memory_percent_rounded |-> 0,
     memory_usage |-> 0, memory_limit |-> 0]

\* container.attrs as far as _parse_container_info reads it: RestartCount,
\* Config.Labels, NetworkSettings with its Networks, State.StartedAt, each
\* there or not.
Descriptors ==
    [RestartCount : Opt({0, 3}), Labels : Opt({{}, {"app"}}),
     NetworkSettings : Opt([Networks : Opt({<< >>, <<"bridge">>})]),
     StartedAt : Opt({"t0"})]
FullDescriptor ==
    [RestartCount |-> <<0>>, Labels |-> <<{}>>,
     NetworkSettings |-> <<[Networks |-> <<(<< >>)>>]>>, StartedAt |-> <<"t0">>]
NoInfo ==
    [outcome |-> "none", restart_count |-> 0, labels |-> {},
     networks |-> << >>, started_at |-> << >>]

StatsDocIdle == statsDoc = CHOOSE d \in StatsDocs : d.fetch = "NotFound"
AttrsIdle == attrs = FullDescriptor

StatsIdle ==
    /\ StatsDocIdle
    /\ statsResult = NoStats
    /\ AttrsIdle
    /\ unitInfo = NoInfo

(***************************************************************************)
(* The log extraction: universe.                                           *)
(***************************************************************************)
ERROR_KEYWORDS == {"ERROR", "Error", "Exception", "Traceback", "Stacktrace"}

\* A line is a sequence of words; a word is its text and its length in
\* characters. A prefix of a word keeps the text and has a smaller len.
Word(t, n) == [text |-> t, len |-> n]
Blank == Word(" ", 1)

\* The lines a log text is made of: two without a keyword (one of them with
\* "error" in lower case), three with a keyword (one inside a longer word),
\* the empty line and a line of white space.
LineInfo == <<Word("INFO", 4), Blank, Word("ok", 2)>>
LineLower == <<Word("error", 5), Blank, Word("line2", 5)>>
LineBoom == <<Word("ERROR", 5), Blank, Word("boom", 4)>>
LineTrace == <<Word("Traceback", 9)>>
LineNested == <<Blank, Word("NullPointerException", 20)>>
LineEmpty == << >>
LineSpaces == <<Blank, Blank>>
\* A keyword line of more than 1024 characters.
LineLong == <<Word("ERROR", 5), Blank, Word("dump", 1100)>>
LogLines == {LineInfo, LineLower, LineBoom, LineTrace, LineNested,
             LineEmpty, LineSpaces, LineLong}

\* logs.splitlines() of every log text of at most MaxLines lines.
LogTexts == UNION {[1..n -> LogLines] : n \in 0..MaxLines}

IdleParser ==
    [pc |-> "idle", i |-> 1, buf |-> << >>, bufAt |-> << >>,
     capturing |-> FALSE, errors_found |-> 0, returned |-> 0]

LogIdle ==
    /\ logs = << >>
    /\ parser = IdleParser
    /\ errorRows = << >>

(***************************************************************************)
(* The connection auto-detection: universe.                                *)
(***************************************************************************)
\* platform.system().lower()
Platforms == {"windows", "linux", "darwin", "freebsd"}

\* The transports of the three helpers: docker.from_env(), the Windows named
\* pipe, the two Unix socket paths, tcp://127.0.0.1:2375.
Transports == {"env", "npipe", "sock1", "sock2", "tcp"}
socket_paths == <<"sock1", "sock2">>

\* What the host answers: reach[t] is whether a client of transport t can be
\* built and pings; exists[s] is os.path.exists of a socket path. A socket
\* file that does not exist cannot be reached.
Environments ==
    {e \in [platform : Platforms, reach : [Transports -> BOOLEAN],
            exists : [{"sock1", "sock2"} -> BOOLEAN]] :
        \A k \in {"sock1", "sock2"} : e.reach[k] => e.exists[k]}

IdleDetect ==
    [pc |-> "idle", platform |-> "linux",
     reach |-> [t \in Transports |-> FALSE],
     exists |-> [k \in {"sock1", "sock2"} |-> FALSE],
     tried |-> << >>, client |-> "none", raised |-> ""]

DetectIdle == detect = IdleDetect

IdleNaming ==
    [pc |-> "idle", parts |-> CHOOSE p \in LabelParts : ~p.present,
     label |-> << >>, container_name |-> << >>]

NameIdle == naming = IdleNaming

(***************************************************************************)
(* The Kubernetes sync: universe.                                          *)
(***************************************************************************)
\* Namespaces of the cluster, in the order list_namespace answers.
NsOrder == <<"n1", "n2">>
KNamespaces == {"n1", "n2"}
\* The pod "web" of namespace "n1" and the containers it can have; an empty
\* set of containers stands for no pod.
PodNamespace == "n1"
PodName == "web"
CtrOrder == <<"c1", "c2">>
CtrNames == {"c1", "c2"}
\* An event key stands for one (namespace, reason, involved_object_name,
\* first_timestamp); the cluster is the one of the pass.
EventOrder == <<"e1", "e2">>
EventKeys == {"e1", "e2"}

\* Outcome of KubernetesService(...): built, or the config cannot be loaded.
\* Outcome of a list call: the items, or an ApiException (caught, []).
KubeInitOutcomes == {"ok", "initfail"}
ListOutcomes == {"ok", "apifail"}

NoEvents == [e \in EventKeys |-> << >>]

IdleKPass ==
    [pc |-> "idle", i |-> 1,
     namespaces_data |-> << >>, pods_data |-> << >>, events_data |-> << >>,
     synced_namespaces |-> 0, synced_pods |-> 0, synced_containers |-> 0,
     synced_events |-> 0, result |-> "none",
     \* history of the pass, read by the properties only
     apiFailed |-> FALSE, eventsBefore |-> NoEvents, updatedEvents |-> {}]

KubeInitial ==
    /\ kubeLive = [ns |-> {}, ctrs |-> {}, events |-> [e \in EventKeys |-> 0]]
    /\ kubeDb = [is_active |-> TRUE, namespaces |-> {}, pods |-> {},
                 containers |-> {}, events |-> NoEvents]
    /\ kpass = IdleKPass

\* The tables update_or_create is called on, with a unique_together
\* constraint each: DockerContainer (host, container_id), Container
\* (pod, name). Two keys of each.
Tables == {"DockerContainer", "Container"}
RowKeys == {"k1", "k2"}
IdleCall == [pc |-> "idle", table |-> "DockerContainer", key |-> "k1"]

TableIdle ==
    /\ rowCount = [t \in Tables |-> [k \in RowKeys |-> 0]]
    /\ uoc = [p \in Procs |-> IdleCall]

Init ==
    /\ SyncInit /\ StreamInit /\ StatsIdle /\ LogIdle /\ DetectIdle /\ NameIdle
    /\ KubeInitial /\ TableIdle

(***************************************************************************)
(* Pieces of the two handlers.                                             *)
(***************************************************************************)
\* Variant: the id is recorded only once its row has been written.
AddLiveIdAfterUpsert(ids, cid, upsertOk) == IF upsertOk THEN ids \cup {cid} ELSE ids

\* docker_container_ids.add(container_data['container_id']): the first
\* statement of the loop body, before update_or_create is attempted.
AddLiveId(ids, cid, upsertOk) == ids \cup {cid}

\* get_all_containers: a DockerException of containers.list is caught and an
\* empty list returned; otherwise the parsed descriptors.
ListResult(c, L) == IF c = "listfail" THEN << >> ELSE L

\* DockerService(...) raising, or _parse_container_info raising inside
\* get_all_containers, leaves the handler through its outer except.
EnumerationRaises(c) == c \in {"connfail", "parsefail"}

\* What an exception of update_or_create does to the pass: the view has no
\* per-unit try (the outer except answers 500), the command catches it and
\* continues with the next unit.
OnUpsertError(entry) == IF entry = "view" THEN "abort" ELSE "skip"

\* Variant: the stats call is not wrapped, its exception leaves the loop.
OnStatsErrorUnguarded(entry, so) == IF so = "raises" THEN "abort" ELSE "continue"

\* What a failed get_container_stats (None or an exception) does to the
\* pass: both handlers wrap the call in try/except and go on.
OnStatsError(entry, so) == "continue"

\* update_or_create(host, container_id, defaults=...): the row's attributes
\* are overwritten by the descriptor's.
UpsertRow(old, kind) == kind

\* Variant: filter(container_id__in=...) where exclude(...) is meant.
PruneIdsFilter(persisted, ids) == persisted \cap ids

\* filter(host=host).exclude(container_id__in=docker_container_ids)
PruneIds(persisted, ids) == persisted \ ids

\* The view reports QuerySet.delete()[0]: the number of rows deleted, the
\* cascaded DockerContainerMetric rows (on_delete=CASCADE) included.
RemovedCountView(del, m) == Cardinality(del) + SumOver(m, del)

\* The command reports removed.count(), taken before the delete.
RemovedCountCommand(del, m) == Cardinality(del)

RemovedCount(entry, del, m) ==
    IF entry = "view" THEN RemovedCountView(del, m) ELSE RemovedCountCommand(del, m)

\* Whether the loop body collects stats for a unit.
CollectsStats(entry, skip, kind) ==
    kind = "running" /\ (entry = "view" \/ ~skip)

(***************************************************************************)
(* The reconciliation pass, one action per step of the handler.            *)
(***************************************************************************)
\* A worker that is free to enter a handler.
Free(p) == p \in workers /\ pass[p].pc = "idle"

\* Variant: the lookup does not filter on is_active.
ActiveLookupAny(is_active) == TRUE

\* objects.get(id=..., is_active=True) / filter(id=..., is_active=True):
\* whether the row of the scope is found.
ActiveLookup(is_active) == is_active

\* The handler is entered for an active host: DockerService(host_url) and
\* get_all_containers(all_containers=True).
StartPass(p, e, h, c, L, skip) ==
    /\ Free(p)
    /\ ActiveLookup(hostActive[h])
    /\ e = "view" => ~skip
    /\ c # "ok" => L = << >>
    /\ pass' = [pass EXCEPT ![p] =
                  [IdlePass EXCEPT
                     !.pc = IF EnumerationRaises(c) THEN "done" ELSE "loop",
                     !.entry = e, !.host = h, !.conn = c, !.skipMetrics = skip,
                     !.live = ListResult(c, L),
                     !.result = IF EnumerationRaises(c) THEN "error" ELSE "none",
                     !.before = Persisted(h)]]
    /\ UNCHANGED <<hostActive, containers, metrics, workers>>
    /\ UNCHANGED nonSyncVars

\* The handler is entered for a host that is not active: the view answers
\* 404, the command prints that the host was not found and returns.
StartInactive(p, e, h) ==
    /\ Free(p)
    /\ ~ActiveLookup(hostActive[h])
    /\ pass' = [pass EXCEPT ![p] =
                  [IdlePass EXCEPT !.pc = "done", !.entry = e, !.host = h,
                                   !.result = "notfound",
                                   !.before = Persisted(h)]]
    /\ UNCHANGED <<hostActive, containers, metrics, workers>>
    /\ UNCHANGED nonSyncVars

\* One iteration of "for container_data in containers_data" whose
\* update_or_create raises.
IterateMalformed(p) ==
    LET ps == pass[p]
        u == ps.live[ps.i]
    IN  /\ ps.pc = "loop"
        /\ ps.i <= Len(ps.live)
        /\ u.kind = "malformed"
        /\ pass' = [pass EXCEPT ![p] =
                IF OnUpsertError(ps.entry) = "abort"
                THEN [ps EXCEPT !.ids = AddLiveId(ps.ids, u.id, FALSE),
                                !.pc = "done", !.result = "error"]
                ELSE [ps EXCEPT !.ids = AddLiveId(ps.ids, u.id, FALSE),
                                !.i = ps.i + 1]]
        /\ UNCHANGED <<hostActive, containers, metrics, workers>>
        /\ UNCHANGED nonSyncVars

\* One iteration whose update_or_create succeeds, with the stats collection
\* that follows it for a running unit (so is its outcome).
IterateUpsert(p, so) ==
    LET ps == pass[p]
        u == ps.live[ps.i]
        h == ps.host
        was == containers[h][u.id] # "absent"
        collect == CollectsStats(ps.entry, ps.skipMetrics, u.kind)
        sample == collect /\ so = "ok"
        failed == collect /\ so # "ok"
        abort == failed /\ OnStatsError(ps.entry, so) = "abort"
    IN  /\ ps.pc = "loop"
        /\ ps.i <= Len(ps.live)
        /\ u.kind # "malformed"
        /\ ~collect => so = "absent"
        /\ sample => metrics[h][u.id] < MaxSamples
        /\ containers' = [containers EXCEPT ![h][u.id] = UpsertRow(@, u.kind)]
        /\ metrics' = [metrics EXCEPT ![h][u.id] = IF sample THEN @ + 1 ELSE @]
        /\ pass' = [pass EXCEPT ![p] =
                [ps EXCEPT !.ids = AddLiveId(ps.ids, u.id, TRUE),
                           !.synced = ps.synced + 1,
                           !.created = IF was THEN @ ELSE @ \cup {u.id},
                           !.updated = IF was THEN @ \cup {u.id} ELSE @,
                           !.metricsCount = IF sample THEN @ + 1 ELSE @,
                           !.statsFailed = IF failed THEN @ \cup {u.id} ELSE @,
                           !.i = IF abort THEN ps.i ELSE ps.i + 1,
                           !.pc = IF abort THEN "done" ELSE "loop",
                           !.result = IF abort THEN "error" ELSE "none"]]
        /\ UNCHANGED <<hostActive, workers>>
        /\ UNCHANGED nonSyncVars

\* After the loop: delete the rows of the host that are not in
\* docker_container_ids (their metric rows cascade), and answer.
Prune(p) ==
    LET ps == pass[p]
        h == ps.host
        del == PruneIds(Persisted(h), ps.ids)
    IN  /\ ps.pc = "loop"
        /\ ps.i > Len(ps.live)
        /\ containers' = [containers EXCEPT ![h] =
                            [c \in Ids |-> IF c \in del THEN "absent" ELSE @[c]]]
        /\ metrics' = [metrics EXCEPT ![h] =
                            [c \in Ids |-> IF c \in del THEN 0 ELSE @[c]]]
        /\ pass' = [pass EXCEPT ![p] =
                [ps EXCEPT !.pc = "done", !.result = "success",
                           !.deleted = del, !.pruned = TRUE,
                           !.rank = 1 + Cardinality({q \in Procs \ {p} :
                                                       pass[q].pruned}),
                           !.removed = RemovedCount(ps.entry, del, metrics[h])]]
        /\ UNCHANGED <<hostActive, workers>>
        /\ UNCHANGED nonSyncVars

\* Variant: an exception of one host's pass leaves the loop over the hosts.
RemainingHostsAbort(result, todo) == IF result = "error" THEN << >> ELSE todo

\* "for host in docker_hosts": the try around one host's pass catches every
\* exception, the loop goes on with the hosts that are left.
RemainingHosts(result, todo) == todo

\* The handler returns.
Return(p) ==
    /\ pass[p].pc = "done"
    /\ RemainingHosts(pass[p].result, pass[p].todo) = << >>
    /\ pass' = [pass EXCEPT ![p] = IdlePass]
    /\ UNCHANGED <<hostActive, containers, metrics, workers>>
    /\ UNCHANGED nonSyncVars

\* The handler returns and is entered again at once for the same host, the
\* runtime answering with the same list as before.
Rerun(p) ==
    LET ps == pass[p]
    IN  /\ ps.pc = "done"
        /\ ~ps.repeat
        /\ ps.todo = << >> /\ ps.prior = << >>
        /\ ps.conn \in {"ok", "listfail"}
        /\ ActiveLookup(hostActive[ps.host])
        /\ pass' = [pass EXCEPT ![p] =
                [IdlePass EXCEPT
                   !.pc = "loop", !.entry = ps.entry, !.host = ps.host,
                   !.conn = ps.conn, !.skipMetrics = ps.skipMetrics,
                   !.live = ps.live, !.before = Persisted(ps.host),
                   !.repeat = TRUE, !.first = containers[ps.host],
                   !.firstMetrics = metrics[ps.host]]]
        /\ UNCHANGED <<hostActive, containers, metrics, workers>>
        /\ UNCHANGED nonSyncVars

\* SyncDockerDataView.post / Command.handle entered with any request, the
\* runtime answering in any way.
SyncStart(p) ==
    /\ Free(p)
    /\ \E e \in Entries, h \in Hosts, c \in ConnOutcomes,
          L \in Snapshots, skip \in BOOLEAN : StartPass(p, e, h, c, L, skip)

SyncRejected(p) ==
    /\ Free(p)
    /\ \E e \in Entries, h \in Hosts : StartInactive(p, e, h)

Iterate(p) ==
    /\ pass[p].pc = "loop"
    /\ \E so \in StatsOutcomes : IterateUpsert(p, so)

Next ==
    \/ \E p \in Procs : SyncStart(p)
    \/ \E p \in Procs : SyncRejected(p)
    \/ \E p \in Procs : IterateMalformed(p)
    \/ \E p \in Procs : Iterate(p)
    \/ \E p \in Procs : Prune(p)
    \/ \E p \in Procs : Return(p)
    \/ \E p \in Procs : Rerun(p)

Spec == Init /\ [][Next]_vars

(***************************************************************************)
(* Passes of two workers and two hosts, interleaved.                       *)
(***************************************************************************)
\* The hosts in the order of DockerHost.objects.filter(is_active=True).
HostOrder == <<"h1", "h2">>

\* The lists the runtimes answer with here: one stopped container, the
\* first or the second.
ConcurrentSnapshots ==
    {<<[id |-> "a", kind |-> "exited"]>>,
     <<[id |-> "b", kind |-> "exited"]>>}

\* The locals of the command at the start of one host's pass.
HostPass(h, c, L, rest, sofar) ==
    [IdlePass EXCEPT
       !.pc = IF EnumerationRaises(c) THEN "done" ELSE "loop",
       !.entry = "command", !.host = h, !.conn = c, !.skipMetrics = FALSE,
       !.live = ListResult(c, L),
       !.result = IF EnumerationRaises(c) THEN "error" ELSE "none",
       !.before = Persisted(h), !.todo = rest, !.prior = sofar]

\* Command.handle without --host-id: the pass of the first active host.
CommandStart(p, c, L) ==
    LET hs == SelectSeq(HostOrder, LAMBDA h : ActiveLookup(hostActive[h]))
    IN  /\ Free(p)
        /\ hs # << >>
        /\ c # "ok" => L = << >>
        /\ pass' = [pass EXCEPT ![p] = HostPass(Head(hs), c, L, Tail(hs), << >>)]
        /\ UNCHANGED <<hostActive, containers, metrics, workers>>
        /\ UNCHANGED nonSyncVars

\* The next round of "for host in docker_hosts", after the pass of one host
\* has ended, with its summary line or in the except clause.
CommandNextHost(p, c, L) ==
    LET ps == pass[p]
        rest == RemainingHosts(ps.result, ps.todo)
    IN  /\ ps.pc = "done"
        /\ ps.entry = "command"
        /\ rest # << >>
        /\ c # "ok" => L = << >>
        /\ pass' = [pass EXCEPT ![p] =
                      HostPass(Head(rest), c, L, Tail(rest),
                               Append(ps.prior, [host |-> ps.host,
                                                 result |-> ps.result]))]
        /\ UNCHANGED <<hostActive, containers, metrics, workers>>
        /\ UNCHANGED nonSyncVars

ConcurrentOutcomes == {"ok", "connfail"}

ViewRequest(p) ==
    /\ Free(p)
    /\ \E h \in Hosts, L \in ConcurrentSnapshots :
          StartPass(p, "view", h, "ok", L, FALSE)

CommandRun(p) ==
    /\ Free(p)
    /\ \E c \in ConcurrentOutcomes :
          \E L \in IF c = "ok" THEN ConcurrentSnapshots ELSE {<< >>} :
              CommandStart(p, c, L)

CommandLoop(p) ==
    /\ pass[p].pc = "done"
    /\ \E c \in ConcurrentOutcomes :
          \E L \in IF c = "ok" THEN ConcurrentSnapshots ELSE {<< >>} :
              CommandNextHost(p, c, L)

\* One iteration of the loop; no stats are collected for a stopped unit.
UpsertStep(p) ==
    /\ pass[p].pc = "loop"
    /\ IterateUpsert(p, "absent")

ConcurrentNext ==
    \/ \E p \in Procs : ViewRequest(p)
    \/ \E p \in Procs : CommandRun(p)
    \/ \E p \in Procs : CommandLoop(p)
    \/ \E p \in Procs : UpsertStep(p)
    \/ \E p \in Procs : Prune(p)
    \/ \E p \in Procs : Return(p)

\* Two workers, both hosts active; earlier passes have left each host the
\* row of container b, then running, with one sample.
ConcurrentInit ==
    /\ hostActive = [h \in Hosts |-> TRUE]
    /\ containers = [h \in Hosts |->
                       [c \in Ids |-> IF c = "b" THEN "running" ELSE "absent"]]
    /\ metrics = [h \in Hosts |-> [c \in Ids |-> IF c = "b" THEN 1 ELSE 0]]
    /\ pass = [p \in Procs |-> IdlePass]
    /\ workers = Procs

InitConcurrent ==
    /\ ConcurrentInit
    /\ StreamInit /\ StatsIdle /\ LogIdle /\ DetectIdle /\ NameIdle
    /\ KubeInitial /\ TableIdle

SpecConcurrent == InitConcurrent /\ [][ConcurrentNext]_vars

(***************************************************************************)
(* Properties of the reconciliation pass.                                  *)
(***************************************************************************)
\* A pass that ran to its answer over a list without malformed descriptor.
CleanPassDone(p) ==
    /\ pass[p].pc = "done"
    /\ pass[p].result = "success"
    /\ pass[p].conn = "ok"
    /\ MalformedIds(pass[p].live) = {}

\* C1 - diff correctness: a pass over persisted set P (before) and live list
\* L creates exactly L \ P, updates exactly L \cap P, deletes exactly P \ L,
\* leaves the persisted id set equal to L, and reports |L \ P| + |L \cap P|
\* synced units and |P \ L| removed units.
C1_DiffCorrectness ==
    \A p \in Procs : CleanPassDone(p) =>
        LET ps == pass[p]
            P == ps.before
            L == LiveIds(ps.live)
        IN  /\ ps.created = L \ P
            /\ ps.updated = L \cap P
            /\ ps.deleted = P \ L
            /\ Persisted(ps.host) = L
            /\ ps.synced = Cardinality(L \ P) + Cardinality(L \cap P)
            /\ ps.removed = Cardinality(P \ L)

\* C2 (as stated) - idempotence: after the second of two successive runs
\* over the same list the whole persisted state of the host (container rows
\* and metric rows) is what it was after the first run, nothing was created
\* and nothing removed.
C2_IdempotentAllRows ==
    \A p \in Procs : (pass[p].pc = "done" /\ pass[p].repeat) =>
        /\ containers[pass[p].host] = pass[p].first
        /\ metrics[pass[p].host] = pass[p].firstMetrics
        /\ pass[p].created = {} /\ pass[p].deleted = {}
        /\ pass[p].removed = 0

\* C2 (amended) - idempotence of the container rows: after the second of two
\* successive runs over the same list the DockerContainer rows of the host
\* (ids and attributes) are what they were after the first run, the second
\* run created no row, deleted no row and reports zero removed.
C2_IdempotentUnits ==
    \A p \in Procs : (pass[p].pc = "done" /\ pass[p].repeat) =>
        /\ containers[pass[p].host] = pass[p].first
        /\ pass[p].created = {} /\ pass[p].deleted = {}
        /\ pass[p].removed = 0

\* A second run that answered, rewrote a row and found rows to keep, after
\* a first run that had deleted nothing it could delete again.
C2_Witness ==
    \E p \in Procs :
        /\ pass[p].pc = "done" /\ pass[p].repeat /\ pass[p].result = "success"
        /\ Cardinality(pass[p].updated) >= 2
        /\ Persisted(pass[p].host) # Ids

\* C3 - a pass never deletes a row whose container id is in the list the
\* pass enumerated, whether or not the unit's upsert or stats succeeded.
C3_LiveUnitNeverDeleted ==
    \A p \in Procs : pass[p].deleted \cap LiveIds(pass[p].live) = {}

\* A pruning pass that deleted a row while a listed unit whose upsert had
\* failed, and one whose stats had failed, kept their rows.
C3_Witness ==
    \E p \in Procs :
        /\ pass[p].pruned /\ pass[p].deleted # {}
        /\ pass[p].statsFailed # {}
        /\ \E c \in MalformedIds(pass[p].live) : containers[pass[p].host][c] # "absent"

\* C4 - a connectivity failure (connecting, or during the list call) aborts
\* the pass: no row is created, updated or deleted and an error is reported.
C4_ConnectivityFailureAborts ==
    \A p \in Procs :
        (pass[p].pc = "done" /\ pass[p].conn \in {"connfail", "listfail"}) =>
            /\ pass[p].result = "error"
            /\ ~pass[p].pruned
            /\ pass[p].created = {} /\ pass[p].updated = {} /\ pass[p].deleted = {}
            /\ Persisted(pass[p].host) = pass[p].before

\* C5, the step: an iteration whose stats collection failed writes the
\* unit's row, adds no metric row for it and goes on with the next unit.
StatsFailureStep(p) ==
    \A c \in pass'[p].statsFailed \ pass[p].statsFailed :
        /\ pass[p].pc = "loop"
        /\ metrics'[pass[p].host][c] = metrics[pass[p].host][c]
        /\ containers'[pass[p].host][c] = pass[p].live[pass[p].i].kind
        /\ pass'[p].pc = "loop"
        /\ pass'[p].i = pass[p].i + 1

\* C5, the pass: with stats failures as the only failures, the pass answers
\* success after the prune step and every listed unit has its row.
StatsFailurePass(p) ==
    (pass[p].pc = "done" /\ pass[p].conn = "ok" /\ pass[p].statsFailed # {}
       /\ MalformedIds(pass[p].live) = {}) =>
        /\ pass[p].result = "success"
        /\ pass[p].pruned
        /\ LiveIds(pass[p].live) \subseteq Persisted(pass[p].host)
        /\ pass[p].synced = Len(pass[p].live)

\* C5 - stats-failure isolation: a failed stats collection (None or an
\* exception) for one running unit persists no sample for it, and the pass
\* still upserts every other unit, prunes and answers success.
C5_StatsFailureIsolated ==
    /\ [](\A p \in Procs : StatsFailurePass(p))
    /\ [][\A p \in Procs : StatsFailureStep(p)]_vars

\* A pass of three units that answered success after stats had failed for
\* one unit, a sample had been stored for another, and a row was pruned.
C5_Witness ==
    \E p \in Procs :
        /\ pass[p].pc = "done" /\ pass[p].result = "success"
        /\ pass[p].statsFailed # {}
        /\ pass[p].metricsCount >= 1
        /\ Len(pass[p].live) >= 2
        /\ pass[p].deleted # {}

\* C6 - a malformed descriptor (its upsert raises) is skipped: the pass
\* still upserts every other listed unit, prunes and does not end in error.
C6_MalformedUnitSkipped ==
    \A p \in Procs :
        (pass[p].pc = "done" /\ pass[p].conn = "ok"
           /\ MalformedIds(pass[p].live) # {}) =>
            /\ pass[p].result = "success"
            /\ pass[p].pruned
            /\ WellFormedIds(pass[p].live) \subseteq Persisted(pass[p].host)

(***************************************************************************)
(* to_series: the display name of a series.                                *)
(***************************************************************************)
\* container_name[:12], for a name of more than 12 characters
HashLength == 12

endswith(nm, suffix) ==
    /\ Len(nm) >= Len(suffix)
    /\ SubSeq(nm, Len(nm) - Len(suffix) + 1, Len(nm)) = suffix
startswith(nm, prefix) ==
    Len(nm) >= Len(prefix) /\ SubSeq(nm, 1, Len(prefix)) = prefix

\* if "/" in container_name: container_name.split("/")[-1]
LastSegment(nm) ==
    LET at == {j \in 1..Len(nm) : nm[j] = Slash}
    IN  IF at = {} THEN nm
        ELSE LET last == CHOOSE j \in at : \A k \in at : k <= j
             IN  SubSeq(nm, last + 1, Len(nm))

\* if container_name.endswith(".scope"): container_name[:-6]
StripScope(nm) ==
    IF endswith(nm, ScopeSuffix) THEN SubSeq(nm, 1, Len(nm) - 6) ELSE nm

\* Variant: the hash is kept whole.
TruncateHashNever(nm) == nm

\* if len(container_name) > 12: container_name[:12]
TruncateHash(nm) ==
    IF Len(nm) > HashLength THEN SubSeq(nm, 1, HashLength) ELSE nm

\* if container_name.startswith("docker-"): container_name[7:], truncated
StripDocker(nm) ==
    IF startswith(nm, DockerPrefix)
    THEN TruncateHash(SubSeq(nm, 7 + 1, Len(nm)))
    ELSE nm

\* container_name = metric.get("name", "unknown"), then the three steps
container_name(label) ==
    StripDocker(StripScope(LastSegment(Get(label, Unknown))))

(***************************************************************************)
(* The stream: DockerMetricsConsumer.                                      *)
(***************************************************************************)
\* connect(): the user is token.user when a Token row has the key, else
\* AnonymousUser; the gate is user.is_authenticated, which is True for every
\* User row, whatever its is_active.
Authenticated(tk) == tk \in {"valid", "disabled"}

\* Variant: a zero value is kept.
DiscardsZeroNever(value_float) == FALSE

\* if value_float == 0: continue
DiscardsZero(value_float) == value_float = 0

RECURSIVE SeriesOf(_)
\* The loop of to_series over the result list: a value that float() cannot
\* parse is skipped, a value equal to 0 is skipped, the rest is appended.
SeriesOf(body) ==
    IF body = << >> THEN << >>
    ELSE LET m == Head(body)
             rest == SeriesOf(Tail(body))
         IN  IF ~FloatParses(m.value) THEN rest
             ELSE IF DiscardsZero(FloatOf(m.value)) THEN rest
             ELSE <<[name |-> container_name(m.name),
                     value |-> FloatOf(m.value)]>> \o rest

\* to_series(resp)
to_series(resp) ==
    IF resp.kind = "exception" THEN << >>
    ELSE IF resp.kind = "malformed" THEN << >>
    ELSE IF resp.kind = "error_status" THEN << >>
    ELSE SeriesOf(resp.body)

\* Variant: gather without return_exceptions, a failed query raises.
TickRaisesOnException(rs) == \E d \in Dims : rs[d].kind = "exception"

\* Whether the settled responses make the try body raise before the send:
\* gather(return_exceptions=True) returns the exceptions as results and
\* to_series catches everything, so they never do.
TickRaises(rs) == FALSE

\* Variant: CancelledError caught by the handler of Exception.
CancelCaughtAsError(pc) == IF pc \in {"gather", "send"} THEN "errsend" ELSE "ended"

\* Where a delivered CancelledError takes the task: inside the try the
\* "except asyncio.CancelledError: break" ends the loop; at the sleep, in the
\* handler's send or before the first step it leaves stream().
CancelOutcome(pc) == "ended"

\* The server dispatches websocket.connect with the request's query string.
WsRequest(tk) ==
    /\ ws = "connecting"
    /\ ws' = "authenticating"
    /\ tok' = tk
    /\ UNCHANGED <<closeCode, accepted, disconnected, taskPc, cancelPending,
                   responses, payload, tickMsgs, tickErr>>
    /\ UNCHANGED <<nonStreamVars, cancelledAt>>

\* connect(): reject with close(code=4401), or accept() and create the task.
WsConnect ==
    /\ ws = "authenticating"
    /\ IF Authenticated(tok)
       THEN /\ ws' = "streaming"
            /\ accepted' = TRUE
            /\ taskPc' = "start"
            /\ UNCHANGED closeCode
       ELSE /\ ws' = "closed"
            /\ closeCode' = RejectCode
            /\ UNCHANGED <<accepted, taskPc>>
    /\ UNCHANGED <<tok, disconnected, cancelPending, responses, payload,
                   tickMsgs, tickErr>>
    /\ UNCHANGED <<nonStreamVars, cancelledAt>>

\* disconnect(code): cancel the task if there is one.
WsDisconnect ==
    /\ ws \in {"streaming", "closed"}
    /\ ~disconnected
    /\ disconnected' = TRUE
    /\ ws' = "closed"
    /\ cancelPending' = (taskPc \in {"start", "gather", "send", "errsend", "sleep"})
    /\ UNCHANGED <<tok, closeCode, accepted, taskPc, responses, payload,
                   tickMsgs, tickErr>>
    /\ UNCHANGED <<nonStreamVars, cancelledAt>>

\* The task starts, or its sleep ends: the next iteration runs up to the
\* await of gather, the four queries issued.
TickStart ==
    /\ taskPc \in {"start", "sleep"}
    /\ ~cancelPending
    /\ taskPc' = "gather"
    /\ responses' = [d \in Dims |-> Pending]
    /\ payload' = NoPayload
    /\ tickMsgs' = << >>
    /\ tickErr' = "none"
    /\ UNCHANGED <<ws, tok, closeCode, accepted, disconnected, cancelPending>>
    /\ UNCHANGED <<nonStreamVars, cancelledAt>>

\* One of the four queries settles.
QuerySettle(d, r) ==
    /\ taskPc = "gather"
    /\ responses[d] = Pending
    /\ responses' = [responses EXCEPT ![d] = r]
    /\ UNCHANGED <<ws, tok, closeCode, accepted, disconnected, taskPc,
                   cancelPending, payload, tickMsgs, tickErr>>
    /\ UNCHANGED <<nonStreamVars, cancelledAt>>

\* Variant: the await returns with the first query that settles.
GatherReturnsFirst(rs) == \E d \in Dims : rs[d] # Pending

\* await asyncio.gather(...) returns once each of its four awaitables has
\* settled, with a response or (return_exceptions=True) an exception.
GatherReturns(rs) == \A d \in Dims : rs[d] # Pending

\* gather returns: the payload is composed and the task awaits its send.
GatherDone ==
    /\ taskPc = "gather"
    /\ ~cancelPending
    /\ GatherReturns(responses)
    /\ IF TickRaises(responses)
       THEN /\ taskPc' = "errsend"
            /\ tickErr' = "tick"
            /\ UNCHANGED payload
       ELSE /\ taskPc' = "send"
            /\ payload' = [d \in Dims |-> to_series(responses[d])]
            /\ UNCHANGED tickErr
    /\ UNCHANGED <<ws, tok, closeCode, accepted, disconnected, cancelPending,
                   responses, tickMsgs>>
    /\ UNCHANGED <<nonStreamVars, cancelledAt>>

\* await self.send(payload) returns, or raises into "except Exception".
SendPayload(ok) ==
    /\ taskPc = "send"
    /\ ~cancelPending
    /\ IF ok
       THEN /\ tickMsgs' = Append(tickMsgs, "data")
            /\ taskPc' = "sleep"
            /\ UNCHANGED tickErr
       ELSE /\ taskPc' = "errsend"
            /\ tickErr' = "send"
            /\ UNCHANGED tickMsgs
    /\ UNCHANGED <<ws, tok, closeCode, accepted, disconnected, cancelPending,
                   responses, payload>>
    /\ UNCHANGED <<nonStreamVars, cancelledAt>>

\* The handler's await self.send({"error": ...}) returns, or raises: nothing
\* catches that, the exception leaves stream() and the task is over.
SendError(ok) ==
    /\ taskPc = "errsend"
    /\ ~cancelPending
    /\ IF ok
       THEN /\ tickMsgs' = Append(tickMsgs, "error")
            /\ taskPc' = "sleep"
            /\ UNCHANGED <<responses, payload>>
       ELSE /\ taskPc' = "crashed"
            /\ responses' = [d \in Dims |-> Pending]
            /\ payload' = NoPayload
            /\ UNCHANGED tickMsgs
    /\ UNCHANGED <<ws, tok, closeCode, accepted, disconnected, cancelPending,
                   tickErr>>
    /\ UNCHANGED <<nonStreamVars, cancelledAt>>

\* The pending cancellation is delivered at the await the task stands at.
Cancelled ==
    /\ cancelPending
    /\ cancelPending' = FALSE
    /\ taskPc' = CancelOutcome(taskPc)
    /\ IF taskPc' = "ended"
       THEN responses' = [d \in Dims |-> Pending] /\ payload' = NoPayload
       ELSE UNCHANGED <<responses, payload>>
    /\ tickErr' = IF taskPc' = "errsend" THEN "cancel" ELSE tickErr
    /\ cancelledAt' = taskPc
    /\ UNCHANGED <<ws, tok, closeCode, accepted, disconnected, tickMsgs>>
    /\ UNCHANGED nonStreamVars

Settle ==
    /\ taskPc = "gather"
    /\ \E d \in Dims, r \in Responses : QuerySettle(d, r)

StreamNext ==
    \/ \E tk \in TokenKinds : WsRequest(tk)
    \/ WsConnect
    \/ WsDisconnect
    \/ TickStart
    \/ Settle
    \/ GatherDone
    \/ \E ok \in BOOLEAN : SendPayload(ok)
    \/ \E ok \in BOOLEAN : SendError(ok)
    \/ Cancelled

SpecStream == Init /\ [][StreamNext]_vars

(***************************************************************************)
(* Properties of the stream.                                               *)
(***************************************************************************)
\* C7 - the authentication gate: the connection is accepted (and gets its
\* task) only for a token of a known and enabled identity; with no token, an
\* unknown token or the token of a disabled identity it is closed with 4401,
\* never accepted.
C7_AuthGate ==
    /\ accepted => tok = "valid"
    /\ (ws \notin {"connecting", "authenticating"} /\ tok # "valid") =>
          /\ ws = "closed"
          /\ closeCode = RejectCode
          /\ ~accepted
          /\ taskPc = "none"

\* The series a settled response stands for: none when it failed, else its
\* parseable non-zero values, in the order returned.
KeptValue(v) == FloatParses(v) /\ FloatOf(v) # 0
ExpectedSeries(r) ==
    IF r.kind # "ok" THEN << >>
    ELSE LET kept == SelectSeq(r.body, LAMBDA m : KeptValue(m.value))
         IN  [k \in 1..Len(kept) |->
                 [name |-> container_name(kept[k].name),
                  value |-> FloatOf(kept[k].value)]]

\* C8 - sub-query isolation: whichever of the four sub-queries fail, the
\* tick composes one normal payload whose failed dimensions are empty lists
\* and whose other dimensions hold their series; no sub-query failure takes
\* the tick into the error handler, and a tick whose send succeeded has sent
\* exactly that one payload.
C8_SubQueryIsolation ==
    /\ tickErr # "tick"
    /\ (taskPc \in {"send", "sleep", "errsend"}) =>
          \A d \in Dims : payload[d] = ExpectedSeries(responses[d])
    /\ (taskPc = "sleep" /\ tickErr = "none") => tickMsgs = <<"data">>
    /\ (\E k \in 1..Len(tickMsgs) : tickMsgs[k] = "error") => tickErr = "send"

\* The tick of the specification's example: netrx failed, the other three
\* succeeded with data, and the payload was sent.
C8_Witness ==
    /\ taskPc = "sleep" /\ tickMsgs = <<"data">>
    /\ responses["netrx"].kind = "exception"
    /\ payload["netrx"] = << >>
    /\ \A d \in Dims \ {"netrx"} : responses[d].kind = "ok" /\ payload[d] # << >>

\* C9 - cancellation: once disconnect() has run, no payload and no error
\* message is sent any more, and the only step the task takes is the end of
\* its loop: a tick whose queries are in flight sends nothing, and after a
\* disconnect during the sleep no tick is started.
C9_Cancellation ==
    [][disconnected =>
         /\ tickMsgs' = tickMsgs
         /\ (taskPc' # taskPc => taskPc' = "ended")]_vars

\* The task ended by a cancellation delivered at the gather of a tick that
\* sent nothing.
C9_Witness ==
    /\ disconnected /\ taskPc = "ended"
    /\ cancelledAt = "gather"
    /\ tickMsgs = << >>

\* C10 - error recovery: a tick that failed with an error other than a
\* cancellation has sent exactly one error message and no payload, and the
\* task, the connection still open, goes on to its sleep and the next tick.
C10_ErrorRecovery ==
    (ws = "streaming" /\ tickErr # "none" /\ taskPc # "errsend") =>
        /\ taskPc = "sleep"
        /\ tickMsgs = <<"error">>

(***************************************************************************)
(* DockerService.get_container_stats.                                      *)
(***************************************************************************)
\* cpu_stats['system_cpu_usage'], precpu_stats['cpu_usage']['total_usage']
\* and precpu_stats['system_cpu_usage'] are subscripts: a missing key raises.
StatsKeyError(doc) ==
    Missing(doc.system) \/ Missing(doc.pre_total) \/ Missing(doc.pre_system)

cpu_delta(doc) == doc.total - doc.pre_total[1]
system_delta(doc) == doc.system[1] - doc.pre_system[1]

\* cpu_stats.get('online_cpus', len(...get('percpu_usage', [1])))
cpu_count(doc) == Get(doc.online_cpus, Get(doc.percpu, 1))

\* Variant: only the system delta is tested.
CpuGuardSystemOnly(sd, cd) == sd > 0

\* if system_delta > 0 and cpu_delta > 0:
CpuGuard(sd, cd) == sd > 0 /\ cd > 0

\* cpu_percent = 0.0, replaced under the guard by
\* (cpu_delta / system_delta) * cpu_count * 100.0
cpu_percent(doc) ==
    IF CpuGuard(system_delta(doc), cpu_delta(doc))
    THEN [n |-> cpu_delta(doc) * cpu_count(doc) * 100, d |-> system_delta(doc)]
    ELSE Zero

memory_usage(doc) == Get(doc.usage, 0)
memory_limit(doc) == Get(doc.limit, 1)

\* Variant: the quotient is computed whatever the limit is.
MemoryGuardNone(limit) == TRUE

\* ... if memory_limit > 0 else 0.0
MemoryGuard(limit) == limit > 0

memory_percent(doc) ==
    IF MemoryGuard(memory_limit(doc))
    THEN [n |-> memory_usage(doc) * 100, d |-> memory_limit(doc)]
    ELSE Zero

\* round(x, 2), in hundredths: the nearest hundredth, a tie to the even one.
Round2(x) ==
    LET h == (x.n * 100) \div x.d
        r == (x.n * 100) % x.d
    IN  IF 2 * r < x.d THEN h
        ELSE IF 2 * r > x.d THEN h + 1
        ELSE IF h % 2 = 0 THEN h ELSE h + 1

get_container_stats(doc) ==
    IF doc.fetch # "ok" THEN [NoStats EXCEPT !.outcome = "None"]
    ELSE IF StatsKeyError(doc) THEN [NoStats EXCEPT !.outcome = "KeyError"]
    ELSE IF cpu_percent(doc).d = 0 \/ memory_percent(doc).d = 0
         THEN [NoStats EXCEPT !.outcome = "ZeroDivisionError"]
    ELSE [outcome |-> "record",
          cpu_percent |-> cpu_percent(doc),
          memory_percent |-> memory_percent(doc),
          cpu_usage_percent |-> Round2(cpu_percent(doc)),
          memory_percent_rounded |-> Round2(memory_percent(doc)),
          memory_usage |-> memory_usage(doc),
          memory_limit |-> memory_limit(doc)]

\* attrs['RestartCount'], a subscript: KeyError without the key.
DescriptorKeyError(a) == Missing(a.RestartCount)

\* _parse_container_info(container): the record of the container, or the
\* KeyError of a subscript.
parse_container_info(a) ==
    IF DescriptorKeyError(a) THEN [NoInfo EXCEPT !.outcome = "KeyError"]
    ELSE [outcome |-> "record",
          restart_count |-> a.RestartCount[1],
          labels |-> Get(a.Labels, {}),
          networks |-> Get(Get(a.NetworkSettings, [Networks |-> << >>]).Networks,
                           << >>),
          started_at |-> a.StartedAt]

\* get_all_containers(): the records of the containers listed; its except
\* clause is for DockerException, any other exception of the parsing leaves
\* the method.
get_all_containers(a) == parse_container_info(a)

\* Either a stats document or a descriptor is drawn.
StatsInit ==
    /\ statsResult = NoStats
    /\ unitInfo = NoInfo
    /\ \/ statsDoc \in StatsDocs /\ AttrsIdle
       \/ StatsDocIdle /\ attrs \in Descriptors

GetContainerStats ==
    /\ statsResult.outcome = "none"
    /\ statsResult' = get_container_stats(statsDoc)
    /\ UNCHANGED <<statsDoc, attrs, unitInfo>>
    /\ UNCHANGED nonStatsVars

GetAllContainers ==
    /\ unitInfo.outcome = "none"
    /\ unitInfo' = get_all_containers(attrs)
    /\ UNCHANGED <<statsDoc, statsResult, attrs>>
    /\ UNCHANGED nonStatsVars

StatsNext ==
    \/ GetContainerStats
    \/ GetAllContainers

InitStats ==
    /\ SyncInit /\ StreamInit /\ StatsInit /\ LogIdle /\ DetectIdle /\ NameIdle
    /\ KubeInitial /\ TableIdle

SpecStats == InitStats /\ [][StatsNext]_vars

(***************************************************************************)
(* Properties of the stats call.                                           *)
(***************************************************************************)
\* The call went past the subscripts of lines 337-345.
StatsComputed == statsResult.outcome \in {"record", "ZeroDivisionError"}
RatEq(x, y) == x.n * y.d = y.n * x.d

\* C11: for every pair of counter snapshots cpu_percent is
\* (cpu_delta / system_delta) * active_cpu_count * 100 when system_delta > 0
\* and cpu_delta > 0, and exactly 0 otherwise; so it is never negative and
\* is 0 whenever system_delta = 0, whatever cpu_delta is.
C11_CpuPercent ==
    StatsComputed =>
        LET cd == statsDoc.total - statsDoc.pre_total[1]
            sd == statsDoc.system[1] - statsDoc.pre_system[1]
            k  == cpu_count(statsDoc)
            r  == statsResult
        IN  /\ r.outcome = "record"
            /\ (sd > 0 /\ cd > 0) =>
                   RatEq(r.cpu_percent, [n |-> cd * k * 100, d |-> sd])
            /\ ~(sd > 0 /\ cd > 0) => r.cpu_percent.n = 0
            /\ r.cpu_percent.d > 0 /\ r.cpu_percent.n >= 0
            /\ r.cpu_usage_percent >= 0
            /\ sd = 0 => (r.cpu_percent.n = 0 /\ r.cpu_usage_percent = 0)

\* Both deltas positive and a percent that is not zero; the counters of the
\* previous snapshot are not zero either.
C11_Witness ==
    /\ statsResult.outcome = "record"
    /\ statsDoc.pre_total = <<1>> /\ statsDoc.total = 2
    /\ statsDoc.pre_system = <<0>> /\ statsDoc.system = <<2>>
    /\ statsDoc.online_cpus = <<2>>
    /\ statsResult.cpu_usage_percent = 10000

\* C12: memory_percent is (memory_usage / memory_limit) * 100 when
\* memory_limit > 0 and exactly 0 when memory_limit = 0; no division by zero
\* occurs for any usage and limit, a missing limit included.
C12_MemoryPercent ==
    StatsComputed =>
        LET r == statsResult
            usage == Get(statsDoc.usage, 0)
        IN  /\ r.outcome # "ZeroDivisionError"
            /\ \A lim \in 0..2 :
                   statsDoc.limit = <<lim>> =>
                       IF lim > 0
                       THEN RatEq(r.memory_percent, [n |-> usage * 100, d |-> lim])
                       ELSE r.memory_percent.n = 0 /\ r.memory_percent_rounded = 0
            /\ r.memory_percent.d > 0

\* A limit of zero with a usage that is not zero.
C12_Witness ==
    /\ statsResult.outcome = "record"
    /\ statsDoc.limit = <<0>> /\ statsDoc.usage = <<3>>
    /\ statsResult.memory_percent_rounded = 0

\* C13: when the previous CPU counters are missing from the raw stats, the
\* call returns a record whose cpu_percent is 0 and does not raise.
C13_FirstSample ==
    (/\ statsResult.outcome # "none"
     /\ statsDoc.fetch = "ok"
     /\ ~Missing(statsDoc.system)
     /\ Missing(statsDoc.pre_total) /\ Missing(statsDoc.pre_system)) =>
        /\ statsResult.outcome = "record"
        /\ statsResult.cpu_percent.n = 0
        /\ statsResult.cpu_usage_percent = 0

(***************************************************************************)
(* parse_logs_and_save_errors.                                             *)
(***************************************************************************)
\* short_message = full.split('\n', 1)[0][:1024]
SummaryLimit == 1024

\* k in word, for a keyword k: the word is the keyword or holds it.
KeywordsInWord(w) ==
    IF w.text \in ERROR_KEYWORDS THEN {w.text}
    ELSE IF w.text = "NullPointerException" THEN {"Exception"}
    ELSE {}

\* Variant: the keywords are matched whatever their case.
has_kw_any_case(line) ==
    \E j \in 1..Len(line) :
        KeywordsInWord(line[j]) # {} \/ line[j].text = "error"

\* has_kw = any(k in line for k in ERROR_KEYWORDS)
has_kw(line) == \E j \in 1..Len(line) : KeywordsInWord(line[j]) # {}

\* line.strip() == ''
StripsToEmpty(line) == \A j \in 1..Len(line) : line[j].text = " "

\* Variant: the whole line, whatever its length.
SliceWhole(line, n) == line

RECURSIVE Slice(_, _)
\* line[:n]
Slice(line, n) ==
    IF line = << >> \/ n = 0 THEN << >>
    ELSE IF line[1].len <= n
         THEN <<line[1]>> \o Slice(Tail(line), n - line[1].len)
         ELSE <<Word(line[1].text, n)>>

\* flush(): nothing for an empty buf, else one ContainerError row, the
\* count and an empty buf. Returns the locals and the table.
flush(st, rows) ==
    IF st.buf = << >> THEN [st |-> st, rows |-> rows]
    ELSE [st |-> [st EXCEPT !.buf = << >>, !.bufAt = << >>,
                            !.errors_found = @ + 1],
          rows |-> Append(rows,
                     [error_message |-> st.buf,
                      short_message |-> Slice(st.buf[1], SummaryLimit),
                      at |-> st.bufAt])]

\* Variant: a blank line flushes the block, capturing stays set.
CapturingAfterBlankKept == TRUE

\* capturing = False, after the flush at a blank line
CapturingAfterBlank == FALSE

\* Variant: no flush after the loop.
FinalFlushNever(capturing) == FALSE

\* if capturing: flush(), after the loop
FinalFlush(capturing) == capturing

LogInit ==
    /\ logs \in LogTexts
    /\ parser = [IdleParser EXCEPT !.pc = "start"]
    /\ errorRows = << >>

\* if not logs: return 0, else the locals are set up
ParseStart ==
    /\ parser.pc = "start"
    /\ parser' = IF logs = << >>
                 THEN [parser EXCEPT !.pc = "returned", !.returned = 0]
                 ELSE [parser EXCEPT !.pc = "loop"]
    /\ UNCHANGED <<logs, errorRows>>
    /\ UNCHANGED nonLogVars

\* One iteration of "for line in lines".
ParseLine ==
    /\ parser.pc = "loop"
    /\ LET line == logs[parser.i]
           step(st) == [st EXCEPT !.i = @ + 1,
                                  !.pc = IF parser.i = Len(logs)
                                         THEN "final" ELSE "loop"]
       IN  IF has_kw(line)
           THEN LET f == flush(parser, errorRows)
                IN  /\ parser' = step([f.st EXCEPT
                                         !.capturing = TRUE,
                                         !.buf = Append(@, line),
                                         !.bufAt = Append(@, parser.i)])
                    /\ errorRows' = f.rows
           ELSE IF parser.capturing
           THEN IF StripsToEmpty(line)
                THEN LET f == flush(parser, errorRows)
                     IN  /\ parser' = step([f.st EXCEPT
                                       !.capturing = CapturingAfterBlank])
                         /\ errorRows' = f.rows
                ELSE /\ parser' = step([parser EXCEPT
                                          !.buf = Append(@, line),
                                          !.bufAt = Append(@, parser.i)])
                     /\ UNCHANGED errorRows
           ELSE /\ parser' = step(parser)
                /\ UNCHANGED errorRows
    /\ UNCHANGED logs
    /\ UNCHANGED nonLogVars

\* The final flush and "return errors_found".
ParseReturn ==
    /\ parser.pc = "final"
    /\ LET f == IF FinalFlush(parser.capturing)
                THEN flush(parser, errorRows)
                ELSE [st |-> parser, rows |-> errorRows]
       IN  /\ parser' = [f.st EXCEPT !.pc = "returned",
                                     !.returned = f.st.errors_found]
           /\ errorRows' = f.rows
    /\ UNCHANGED logs
    /\ UNCHANGED nonLogVars

LogNext == ParseStart \/ ParseLine \/ ParseReturn

InitLogs ==
    /\ SyncInit /\ StreamInit /\ StatsIdle /\ LogInit /\ DetectIdle /\ NameIdle
    /\ KubeInitial /\ TableIdle

SpecLogs == InitLogs /\ [][LogNext]_vars

(***************************************************************************)
(* Properties of the log extraction.                                       *)
(***************************************************************************)
\* The lines of the input that hold a keyword, and the blank ones, named
\* line by line.
KeywordAt == {i \in DOMAIN logs : logs[i] \in {LineBoom, LineTrace, LineNested, LineLong}}
BlankAt == {i \in DOMAIN logs : logs[i] \in {LineEmpty, LineSpaces}}
\* The last line of the block that the keyword line s starts.
BlockEnd(s) ==
    CHOOSE e \in s..Len(logs) :
        /\ \A j \in (s + 1)..e : j \notin KeywordAt /\ j \notin BlankAt
        /\ e = Len(logs) \/ (e + 1) \in KeywordAt \/ (e + 1) \in BlankAt
Interval(a, b) == [j \in 1..(b - a + 1) |-> a + j - 1]

RECURSIVE LineLen(_)
\* The number of characters of a line.
LineLen(line) ==
    IF line = << >> THEN 0 ELSE line[1].len + LineLen(Tail(line))

\* C14: the number of records created, and the count returned, is the
\* number of lines that hold one of the keywords (case-sensitive); a log
\* with no keyword line yields no record.
C14_RecordCount ==
    parser.pc = "returned" =>
        /\ Len(errorRows) = Cardinality(KeywordAt)
        /\ parser.returned = Cardinality(KeywordAt)

\* Two keyword lines in a row, a lower-case "error" line and a line with no
\* keyword: two records.
C14_Witness ==
    /\ parser.pc = "returned"
    /\ logs = <<LineLower, LineBoom, LineNested, LineInfo>>
    /\ parser.returned = 2

\* C15: the full text of each record is its keyword line followed by
\* exactly the following non-keyword lines up to (not including) the first
\* blank line, next keyword line or end of input; every other line belongs to
\* no record. The summary is the keyword line.
C15_BlockContent ==
    parser.pc = "returned" =>
        /\ Len(errorRows) = Cardinality(KeywordAt)
        /\ \A s \in KeywordAt :
               \E k \in DOMAIN errorRows :
                   /\ errorRows[k].at = Interval(s, BlockEnd(s))
                   /\ errorRows[k].error_message =
                          [j \in 1..(BlockEnd(s) - s + 1) |-> logs[s + j - 1]]
                   /\ LineLen(logs[s]) <= SummaryLimit =>
                          errorRows[k].short_message = logs[s]
        /\ \A k1, k2 \in DOMAIN errorRows :
               k1 < k2 => errorRows[k1].at[1] < errorRows[k2].at[1]

\* "INFO ok", "ERROR boom", a line without keyword, "", "INFO ok": one
\* record of two lines with summary "ERROR boom".
C15_Witness ==
    /\ parser.pc = "returned"
    /\ logs = <<LineInfo, LineBoom, LineLower, LineEmpty, LineInfo>>
    /\ errorRows = <<[error_message |-> <<LineBoom, LineLower>>,
                      short_message |-> LineBoom, at |-> <<2, 3>>]>>

\* C16: if the input ends while a block is being captured, that block is
\* flushed as exactly one record; after the return no captured line is left
\* unflushed and no line was flushed twice.
C16_EndOfInputFlush ==
    parser.pc = "returned" =>
        /\ parser.buf = << >>
        /\ \A k1, k2 \in DOMAIN errorRows :
               \A j1 \in DOMAIN errorRows[k1].at, j2 \in DOMAIN errorRows[k2].at :
                   errorRows[k1].at[j1] = errorRows[k2].at[j2] =>
                       (k1 = k2 /\ j1 = j2)
        /\ (\E s \in KeywordAt : BlockEnd(s) = Len(logs)) =>
               Cardinality({k \in DOMAIN errorRows :
                   errorRows[k].at[Len(errorRows[k].at)] = Len(logs)}) = 1

\* The input ends inside a block: its two lines are one record.
C16_Witness ==
    /\ parser.pc = "returned"
    /\ logs = <<LineSpaces, LineTrace, LineInfo>>
    /\ parser.capturing
    /\ errorRows = <<[error_message |-> <<LineTrace, LineInfo>>,
                      short_message |-> LineTrace, at |-> <<2, 3>>]>>

(***************************************************************************)
(* DockerService._auto_detect_connection and its two helpers.              *)
(***************************************************************************)
\* A client is built on transport t and pinged: the attempt is recorded,
\* then either the client is returned or the DockerException is caught and
\* the call goes on at "otherwise".
Attempt(t, otherwise) ==
    IF detect.reach[t]
    THEN [detect EXCEPT !.tried = Append(@, t), !.client = t, !.pc = "done"]
    ELSE [otherwise EXCEPT !.tried = Append(detect.tried, t)]

Raise(cause) == [detect EXCEPT !.pc = "done", !.raised = cause]

\* The dispatch on self.platform after docker.from_env() has failed.
AfterEnv(pf) ==
    IF pf = "windows" THEN "npipe"
    ELSE IF pf \in {"linux", "darwin"} THEN "sock1"
    ELSE "unsupported"

DetectInit ==
    \E e \in Environments :
        detect = [IdleDetect EXCEPT !.pc = "env", !.platform = e.platform,
                                    !.reach = e.reach, !.exists = e.exists]

\* docker.from_env() and ping; on failure the dispatch on the platform.
TryEnv ==
    /\ detect.pc = "env"
    /\ LET to == AfterEnv(detect.platform)
       IN  detect' = Attempt("env",
                       IF to = "unsupported"
                       THEN Raise("Unsupported platform")
                       ELSE [detect EXCEPT !.pc = to])
    /\ UNCHANGED nonDetectVars

\* _try_windows_connections, 1: the named pipe.
TryNamedPipe ==
    /\ detect.pc = "npipe"
    /\ detect' = Attempt("npipe", [detect EXCEPT !.pc = "tcp"])
    /\ UNCHANGED nonDetectVars

\* _try_windows_connections, 2: TCP on the loopback address, else raise.
TryTcp ==
    /\ detect.pc = "tcp"
    /\ detect' = Attempt("tcp",
                         Raise("Could not connect to Docker on Windows"))
    /\ UNCHANGED nonDetectVars

\* _try_unix_connections: one iteration over socket_paths; after the last
\* one the raise.
TrySocket ==
    /\ detect.pc \in {"sock1", "sock2"}
    /\ LET otherwise == IF detect.pc = socket_paths[Len(socket_paths)]
                        THEN Raise("Could not connect to Docker socket")
                        ELSE [detect EXCEPT !.pc = socket_paths[2]]
       IN  detect' = IF detect.exists[detect.pc]
                     THEN Attempt(detect.pc, otherwise)
                     ELSE otherwise
    /\ UNCHANGED nonDetectVars

DetectNext == TryEnv \/ TryNamedPipe \/ TryTcp \/ TrySocket

InitDetect ==
    /\ SyncInit /\ StreamInit /\ StatsIdle /\ LogIdle /\ DetectInit /\ NameIdle
    /\ KubeInitial /\ TableIdle

SpecDetect == InitDetect /\ [][DetectNext]_vars

(***************************************************************************)
(* Properties of the auto-detection.                                       *)
(***************************************************************************)
\* The order of the strategies: the environment, the named local socket or
\* pipe of the platform, the loopback network endpoint.
StrategyOrder ==
    IF detect.platform = "windows" THEN <<"env", "npipe", "tcp">>
    ELSE <<"env", "sock1", "sock2", "tcp">>

\* C18: the strategies are tried in the order environment, named local
\* socket/pipe, loopback endpoint; the first whose ping succeeds is returned
\* and none is attempted after it; if every strategy fails an error with a
\* descriptive cause is raised instead of a client returned.
C18_StrategyOrder ==
    detect.pc = "done" =>
        LET order == StrategyOrder
            ok == {k \in DOMAIN order : detect.reach[order[k]]}
        IN  IF ok = {}
            THEN detect.client = "none" /\ detect.raised # ""
            ELSE LET first == CHOOSE k \in ok : \A j \in ok : k <= j
                 IN  /\ detect.client = order[first]
                     /\ detect.raised = ""
                     /\ detect.tried[Len(detect.tried)] = order[first]

(***************************************************************************)
(* The display name, derived for one label.                                *)
(***************************************************************************)
NameInit ==
    \E p \in LabelParts :
        naming = [IdleNaming EXCEPT !.pc = "metric", !.parts = p,
                                    !.label = LabelOf(p)]

DeriveName ==
    /\ naming.pc = "metric"
    /\ naming' = [naming EXCEPT !.pc = "named",
                                !.container_name = container_name(naming.label)]
    /\ UNCHANGED nonNameVars

NameNext == DeriveName

InitNames ==
    /\ SyncInit /\ StreamInit /\ StatsIdle /\ LogIdle /\ DetectIdle /\ NameInit
    /\ KubeInitial /\ TableIdle

SpecNames == InitNames /\ [][NameNext]_vars

(***************************************************************************)
(* Properties of the display name.                                         *)
(***************************************************************************)
\* C17: the display name is the segment after the last "/", without a
\* trailing ".scope", and, if that starts with "docker-", without the prefix
\* and cut to 12 characters; a label with none of the three is unchanged at
\* any length.
C17_DisplayName ==
    (naming.pc = "named" /\ naming.parts.present) =>
        LET p == naming.parts
        IN  /\ naming.container_name =
                   IF p.docker
                   THEN (IF Len(p.name) > 12 THEN SubSeq(p.name, 1, 12)
                         ELSE p.name)
                   ELSE p.name
            /\ (p.path = << >> /\ ~p.docker /\ ~p.scope) =>
                   naming.container_name = naming.label[1]

\* "/system.slice/docker-ab12cd34ef56gh78.scope" became "ab12cd34ef56".
C17_Witness ==
    /\ naming.pc = "named"
    /\ naming.label = <<<<"/", "s", "y", "s", "t", "e", "m", ".", "s", "l", "i", "c", "e", "/", "d", "o", "c", "k", "e", "r", "-", "a", "b", "1", "2", "c", "d", "3", "4", "e", "f", "5", "6", "g", "h", "7", "8", ".", "s", "c", "o", "p", "e">>>>
    /\ naming.container_name = Hash12

(***************************************************************************)
(* SyncKubernetesDataView.post.                                            *)
(***************************************************************************)
\* get_all_namespaces(), get_all_pods(), get_events(limit=200) of the live
\* cluster; an ApiException is caught in the service and gives [].
Listed(lo, items) == IF lo = "ok" THEN items ELSE << >>
NamespacesData(live) == SelectSeq(NsOrder, LAMBDA n : n \in live.ns)
PodsData(live) ==
    IF live.ctrs = {} THEN << >>
    ELSE <<[namespace |-> PodNamespace, name |-> PodName,
            containers |-> SelectSeq(CtrOrder, LAMBDA c : c \in live.ctrs)]>>
\* event.count and event.last_timestamp of an event that occurred n times.
EventData(e, n) == [key |-> e, count |-> n, last_timestamp |-> n]
EventsData(live) ==
    LET has == SelectSeq(EventOrder, LAMBDA e : live.events[e] > 0)
    IN  [k \in 1..Len(has) |-> EventData(has[k], live.events[has[k]])]

\* Variant: every synced event is inserted.
EventCreate(rows, data) ==
    Append(rows, [count |-> data.count, last_timestamp |-> data.last_timestamp])

\* Event.objects.update_or_create(<key>, defaults={'count': ...,
\* 'last_timestamp': ...}) on the rows of the key: no row, create; one row,
\* overwrite its defaults.
EventUpsert(rows, data) ==
    <<[count |-> data.count, last_timestamp |-> data.last_timestamp]>>
\* Several rows of the key: get() raises MultipleObjectsReturned.
EventUpsertRaises(rows) == Len(rows) > 1

\* The cluster, between two passes: a namespace appears or goes (with its
\* pod), the pod's containers change (none: the pod is gone), an event occurs.
ClusterNamespace(n) ==
    /\ kpass.pc = "idle"
    /\ kubeLive' = IF n \in kubeLive.ns
                   THEN [kubeLive EXCEPT !.ns = @ \ {n},
                             !.ctrs = IF n = PodNamespace THEN {} ELSE @]
                   ELSE [kubeLive EXCEPT !.ns = @ \cup {n}]
    /\ UNCHANGED <<kubeDb, kpass>>
    /\ UNCHANGED nonKubeVars

ClusterPod(cs) ==
    /\ kpass.pc = "idle"
    /\ PodNamespace \in kubeLive.ns
    /\ cs # kubeLive.ctrs
    /\ kubeLive' = [kubeLive EXCEPT !.ctrs = cs]
    /\ UNCHANGED <<kubeDb, kpass>>
    /\ UNCHANGED nonKubeVars

ClusterEvent(e) ==
    /\ kpass.pc = "idle"
    /\ kubeLive.events[e] < MaxOccur
    /\ kubeLive' = [kubeLive EXCEPT !.events[e] = @ + 1]
    /\ UNCHANGED <<kubeDb, kpass>>
    /\ UNCHANGED nonKubeVars

\* The cluster lookup, KubernetesService(...) and get_all_namespaces().
KubeStart(o, lo) ==
    /\ kpass.pc = "idle"
    /\ kpass' =
         IF ~ActiveLookup(kubeDb.is_active)
         THEN [kpass EXCEPT !.pc = "done", !.result = "notfound"]
         ELSE IF o = "initfail"
         THEN [kpass EXCEPT !.pc = "done", !.result = "error"]
         ELSE [kpass EXCEPT
                 !.pc = "namespaces", !.i = 1,
                 !.namespaces_data = Listed(lo, NamespacesData(kubeLive)),
                 !.apiFailed = lo # "ok",
                 !.eventsBefore = kubeDb.events]
    /\ UNCHANGED <<kubeLive, kubeDb>>
    /\ UNCHANGED nonKubeVars

\* One iteration of "for ns_data in namespaces_data".
KubeNamespace ==
    /\ kpass.pc = "namespaces"
    /\ kpass.i <= Len(kpass.namespaces_data)
    /\ kubeDb' = [kubeDb EXCEPT
                    !.namespaces = @ \cup {kpass.namespaces_data[kpass.i]}]
    /\ kpass' = [kpass EXCEPT !.i = @ + 1, !.synced_namespaces = @ + 1]
    /\ UNCHANGED kubeLive
    /\ UNCHANGED nonKubeVars

\* pods_data = k8s_service.get_all_pods()
KubeListPods(lo) ==
    /\ kpass.pc = "namespaces"
    /\ kpass.i > Len(kpass.namespaces_data)
    /\ kpass' = [kpass EXCEPT !.pc = "pods", !.i = 1,
                              !.pods_data = Listed(lo, PodsData(kubeLive)),
                              !.apiFailed = @ \/ lo # "ok"]
    /\ UNCHANGED <<kubeLive, kubeDb>>
    /\ UNCHANGED nonKubeVars

\* One iteration of "for pod_data in pods_data": the namespace row is looked
\* up (DoesNotExist: the pod is logged and skipped), the pod is upserted and
\* then each of its containers.
KubePod ==
    /\ kpass.pc = "pods"
    /\ kpass.i <= Len(kpass.pods_data)
    /\ LET pod == kpass.pods_data[kpass.i]
       IN  IF pod.namespace \notin kubeDb.namespaces
           THEN /\ kpass' = [kpass EXCEPT !.i = @ + 1]
                /\ UNCHANGED kubeDb
           ELSE /\ kubeDb' = [kubeDb EXCEPT
                     !.pods = @ \cup {<<pod.namespace, pod.name>>},
                     !.containers = @ \cup
                         {<<pod.namespace, pod.name, pod.containers[k]>> :
                              k \in 1..Len(pod.containers)}]
                /\ kpass' = [kpass EXCEPT
                     !.i = @ + 1, !.synced_pods = @ + 1,
                     !.synced_containers = @ + Len(pod.containers)]
    /\ UNCHANGED kubeLive
    /\ UNCHANGED nonKubeVars

\* events_data = k8s_service.get_events(limit=200)
KubeListEvents(lo) ==
    /\ kpass.pc = "pods"
    /\ kpass.i > Len(kpass.pods_data)
    /\ kpass' = [kpass EXCEPT !.pc = "events", !.i = 1,
                              !.events_data = Listed(lo, EventsData(kubeLive)),
                              !.apiFailed = @ \/ lo # "ok"]
    /\ UNCHANGED <<kubeLive, kubeDb>>
    /\ UNCHANGED nonKubeVars

\* One iteration of "for event_data in events_data"; an exception of the
\* upsert ends the pass with the 500 response.
KubeEvent ==
    /\ kpass.pc = "events"
    /\ kpass.i <= Len(kpass.events_data)
    /\ LET data == kpass.events_data[kpass.i]
           rows == kubeDb.events[data.key]
       IN  IF EventUpsertRaises(rows)
           THEN /\ kpass' = [kpass EXCEPT !.pc = "done", !.result = "error"]
                /\ UNCHANGED kubeDb
           ELSE /\ kubeDb' = [kubeDb EXCEPT
                                !.events[data.key] = EventUpsert(rows, data)]
                /\ kpass' = [kpass EXCEPT
                     !.i = @ + 1, !.synced_events = @ + 1,
                     !.updatedEvents =
                         IF rows = << >> THEN @ ELSE @ \cup {data.key}]
    /\ UNCHANGED kubeLive
    /\ UNCHANGED nonKubeVars

\* return Response({'status': 'success', 'synced': {...}})
KubeReturn ==
    /\ kpass.pc = "events"
    /\ kpass.i > Len(kpass.events_data)
    /\ kpass' = [kpass EXCEPT !.pc = "done", !.result = "success"]
    /\ UNCHANGED <<kubeLive, kubeDb>>
    /\ UNCHANGED nonKubeVars

\* The response is delivered; the next request can come.
KubeFinish ==
    /\ kpass.pc = "done"
    /\ kpass' = IdleKPass
    /\ UNCHANGED <<kubeLive, kubeDb>>
    /\ UNCHANGED nonKubeVars

KubeRequest == \E o \in KubeInitOutcomes, lo \in ListOutcomes : KubeStart(o, lo)
ClusterChange ==
    \/ \E n \in KNamespaces : ClusterNamespace(n)
    \/ \E cs \in SUBSET CtrNames : ClusterPod(cs)
    \/ \E e \in EventKeys : ClusterEvent(e)

KubeNext ==
    \/ ClusterChange
    \/ KubeRequest
    \/ KubeNamespace
    \/ \E lo \in ListOutcomes : KubeListPods(lo)
    \/ KubePod
    \/ \E lo \in ListOutcomes : KubeListEvents(lo)
    \/ KubeEvent
    \/ KubeReturn
    \/ KubeFinish

(***************************************************************************)
(* update_or_create called by handlers that run at the same time.          *)
(***************************************************************************)
\* Variant: the table has no unique constraint on the key.
UniqueTogetherNone(t) == FALSE

\* unique_together = ['host', 'container_id'] / ['pod', 'name']
UniqueTogether(t) == TRUE

\* A handler calls Model.objects.update_or_create(<key>, defaults=...): in
\* the loop of a pass, or in _sync_single_container.
UpdateOrCreate(p, t, k) ==
    /\ uoc[p].pc = "idle"
    /\ uoc' = [uoc EXCEPT ![p] = [pc |-> "get", table |-> t, key |-> k]]
    /\ UNCHANGED rowCount
    /\ UNCHANGED nonTableVars

\* get_or_create: self.get(**kwargs) finds the row or raises DoesNotExist.
GetRow(p) ==
    LET cl == uoc[p]
    IN  /\ cl.pc = "get"
        /\ uoc' = [uoc EXCEPT ![p].pc =
                      IF rowCount[cl.table][cl.key] > 0 THEN "save" ELSE "create"]
        /\ UNCHANGED rowCount
        /\ UNCHANGED nonTableVars

\* get_or_create after DoesNotExist: the INSERT, which the constraint
\* rejects with IntegrityError when a row with the key is there by now.
CreateRow(p) ==
    LET cl == uoc[p]
        n == rowCount[cl.table][cl.key]
        rejected == UniqueTogether(cl.table) /\ n > 0
    IN  /\ cl.pc = "create"
        /\ rowCount' = IF rejected THEN rowCount
                       ELSE [rowCount EXCEPT ![cl.table][cl.key] = n + 1]
        /\ uoc' = [uoc EXCEPT ![p] =
                      IF rejected THEN [cl EXCEPT !.pc = "retry"] ELSE IdleCall]
        /\ UNCHANGED nonTableVars

\* get_or_create after IntegrityError: self.get(**kwargs) again; the error
\* is raised again when the row is gone.
RetryGet(p) ==
    LET cl == uoc[p]
    IN  /\ cl.pc = "retry"
        /\ uoc' = [uoc EXCEPT ![p] =
                      IF rowCount[cl.table][cl.key] > 0
                      THEN [cl EXCEPT !.pc = "save"] ELSE IdleCall]
        /\ UNCHANGED rowCount
        /\ UNCHANGED nonTableVars

\* update_or_create on a row that was found: obj.save(), an UPDATE by
\* primary key, and an INSERT of that row when the UPDATE matched none.
SaveRow(p) ==
    LET cl == uoc[p]
        n == rowCount[cl.table][cl.key]
    IN  /\ cl.pc = "save"
        /\ rowCount' = [rowCount EXCEPT ![cl.table][cl.key] =
                           IF n = 0 THEN 1 ELSE n]
        /\ uoc' = [uoc EXCEPT ![p] = IdleCall]
        /\ UNCHANGED nonTableVars

\* The prune of a pass deletes the DockerContainer rows of a key.
PruneRows(k) ==
    /\ rowCount["DockerContainer"][k] > 0
    /\ rowCount' = [rowCount EXCEPT !["DockerContainer"][k] = 0]
    /\ UNCHANGED uoc
    /\ UNCHANGED nonTableVars

TableNext ==
    \/ \E p \in Procs, t \in Tables, k \in RowKeys : UpdateOrCreate(p, t, k)
    \/ \E p \in Procs : GetRow(p)
    \/ \E p \in Procs : CreateRow(p)
    \/ \E p \in Procs : RetryGet(p)
    \/ \E p \in Procs : SaveRow(p)
    \/ \E k \in RowKeys : PruneRows(k)

SpecTables == Init /\ [][TableNext]_vars

(***************************************************************************)
(* Deactivation of a host or a cluster, and the sync requests around it.   *)
(***************************************************************************)
\* DockerHostViewSet: an update of the host's row that clears is_active.
HostDeactivate(h) ==
    /\ hostActive[h]
    /\ hostActive' = [hostActive EXCEPT ![h] = FALSE]
    /\ UNCHANGED <<containers, metrics, pass, workers>>
    /\ UNCHANGED nonSyncVars

\* KubernetesClusterViewSet: an update of the cluster's row that clears
\* is_active.
ClusterDeactivate ==
    /\ kubeDb.is_active
    /\ kubeDb' = [kubeDb EXCEPT !.is_active = FALSE]
    /\ UNCHANGED <<kubeLive, kpass>>
    /\ UNCHANGED nonKubeVars

\* No Docker request is made: the requests are those to the cluster.
SyncIdle ==
    /\ hostActive = [h \in Hosts |-> h = "h1"]
    /\ containers = [h \in Hosts |-> [c \in Ids |-> "absent"]]
    /\ metrics = [h \in Hosts |-> [c \in Ids |-> 0]]
    /\ pass = [p \in Procs |-> IdlePass]
    /\ workers = {}

InitScopes ==
    /\ SyncInit \/ SyncIdle
    /\ StreamInit /\ StatsIdle /\ LogIdle /\ DetectIdle /\ NameIdle
    /\ KubeInitial /\ TableIdle

\* The requests of the Docker side, while its worker is there.
HostRequests == workers # {} /\ Next
HostDeactivation == workers # {} /\ \E h \in Hosts : HostDeactivate(h)

\* The requests of the Kubernetes side.
ClusterRequests == workers = {} /\ KubeNext
ClusterDeactivation == workers = {} /\ ClusterDeactivate

ScopesNext ==
    \/ HostRequests
    \/ HostDeactivation
    \/ ClusterRequests
    \/ ClusterDeactivation

SpecScopes == InitScopes /\ [][ScopesNext]_vars

SpecKube == Init /\ [][KubeNext]_vars

(***************************************************************************)
(* Properties of the Kubernetes sync.                                      *)
(***************************************************************************)
Elements(q) == {q[k] : k \in 1..Len(q)}

\* C19: after a Kubernetes sync pass every persisted namespace, pod and pod
\* container of the cluster that the pass's live enumeration does not hold
\* has been deleted: the persisted records of each type match the snapshot.
C19_KubernetesPrune ==
    (kpass.pc = "done" /\ kpass.result = "success" /\ ~kpass.apiFailed) =>
        /\ kubeDb.namespaces = Elements(kpass.namespaces_data)
        /\ kubeDb.pods =
               {<<pod.namespace, pod.name>> : pod \in Elements(kpass.pods_data)}
        /\ kubeDb.containers =
               UNION {{<<pod.namespace, pod.name, c>> :
                          c \in Elements(pod.containers)} :
                      pod \in Elements(kpass.pods_data)}

\* The step of KubeEvent that upserts the event of the list.
EventSynced == kpass'.synced_events = kpass.synced_events + 1
OneRowPerKey == \A e \in EventKeys : Len(kubeDb.events[e]) <= 1

\* C20, as claimed: syncing an event whose key is persisted creates no second
\* row, increments the row's count and advances its last timestamp.
C20_EventUpsertIncrements ==
    [][EventSynced =>
         LET data == kpass.events_data[kpass.i]
             old == kubeDb.events[data.key]
             new == kubeDb'.events[data.key]
         IN  old # << >> =>
                 /\ Len(new) = 1
                 /\ new[1].count > old[1].count
                 /\ new[1].last_timestamp > old[1].last_timestamp]_vars

\* C20: syncing an event whose key is persisted creates no second row; it
\* sets the row's count and last timestamp to those of the live event, which
\* are never lower than the stored ones. There is at most one Event row per
\* key after any sequence of passes.
C20_EventUpsertOverwrites ==
    /\ []OneRowPerKey
    /\ [][EventSynced =>
            LET data == kpass.events_data[kpass.i]
                old == kubeDb.events[data.key]
                new == kubeDb'.events[data.key]
            IN  /\ Len(new) = 1
                /\ new[1].count = data.count
                /\ new[1].last_timestamp = data.last_timestamp
                /\ old # << >> =>
                       /\ new[1].count >= old[1].count
                       /\ new[1].last_timestamp >= old[1].last_timestamp
                /\ \A e \in EventKeys \ {data.key} :
                       kubeDb'.events[e] = kubeDb.events[e]]_vars

\* An event synced with one occurrence, then again after its second one.
C20_Witness ==
    /\ kpass.pc = "done" /\ kpass.result = "success"
    /\ "e1" \in kpass.updatedEvents
    /\ kpass.eventsBefore["e1"] = <<[count |-> 1, last_timestamp |-> 1]>>
    /\ kubeDb.events["e1"] = <<[count |-> 2, last_timestamp |-> 2]>>

(***************************************************************************)
(* Further properties of the stream.                                       *)
(***************************************************************************)
\* C22: on a connection that fails authentication (its credential is not
\* that of a known, enabled identity) nothing is ever sent and no stream task
\* is created; messages are sent only on an accepted connection, the states
\* follow Connecting, Authenticating, Streaming, Closed.
C22_NoDataOnRejection ==
    /\ (ws \notin {"connecting", "authenticating"} /\ tok # "valid") =>
          /\ taskPc = "none"
          /\ tickMsgs = << >>
          /\ ~accepted
    /\ tickMsgs # << >> => accepted
    /\ ws = "streaming" => accepted
    /\ taskPc # "none" => accepted

\* C26: the four sub-queries of a tick are issued together before the task
\* waits for any of them, and the payload is composed, and sent, only once
\* all four have settled; none is outstanding when a payload is sent.
C26_FanOutFanIn ==
    [][/\ (taskPc # "gather" /\ taskPc' = "gather") =>
              \A d \in Dims : responses'[d] = Pending
       /\ (taskPc = "gather" /\ taskPc' = "send") =>
              \A d \in Dims : responses[d] # Pending /\ responses'[d] = responses[d]
       /\ (payload' # payload /\ payload' # NoPayload) =>
              \A d \in Dims : responses[d] # Pending
       /\ (tickMsgs' # tickMsgs /\ tickMsgs' # << >>) =>
              \A d \in Dims : responses[d] # Pending]_vars

\* A payload sent after two queries had failed in two ways and two had
\* succeeded.
C26_Witness ==
    /\ taskPc = "sleep" /\ tickMsgs = <<"data">>
    /\ responses["cpu"].kind = "ok" /\ responses["nettx"].kind = "ok"
    /\ responses["memory"].kind = "error_status"
    /\ responses["netrx"].kind = "malformed"

(***************************************************************************)
(* Further properties of the reconciliation pass.                          *)
(***************************************************************************)
\* C25: the removed count a pass reports is the number of unit rows of the
\* host whose id is not in the live list, whatever number of metric rows
\* those units own, and the view and the command report the same count for
\* the same persisted state and list.
C25_RemovedCount ==
    [][\A p \in Procs :
          (pass[p].pc = "loop" /\ pass'[p].pruned) =>
              LET h == pass[p].host
                  del == Persisted(h) \ LiveIds(pass[p].live)
              IN  /\ pass'[p].removed = Cardinality(del)
                  /\ RemovedCountView(del, metrics[h]) =
                         RemovedCountCommand(del, metrics[h])]_vars

(***************************************************************************)
(* Further properties of to_series.                                        *)
(***************************************************************************)
\* The positions of a result list whose value parses and is not zero.
KeptAt(body) == {i \in 1..Len(body) : KeptValue(body[i].value)}

\* C27: no point of a composed payload has value 0; of a successful
\* sub-query each series with a parseable non-zero value is exactly one
\* {name, value} point of its dimension, the points in the order returned,
\* and the series whose value does not parse are left out without any
\* other series of the dimension being lost.
C27_ZeroValueDiscard ==
    (taskPc \in {"send", "sleep", "errsend"}) =>
        \A d \in Dims :
            /\ \A k \in 1..Len(payload[d]) : payload[d][k].value # 0
            /\ responses[d].kind = "ok" =>
                  LET body == responses[d].body
                      kept == KeptAt(body)
                  IN  /\ Len(payload[d]) = Cardinality(kept)
                      /\ \A i \in kept :
                            LET k == Cardinality({j \in kept : j <= i})
                            IN  /\ payload[d][k].value = FloatOf(body[i].value)
                                /\ payload[d][k].name = container_name(body[i].name)
                                /\ DOMAIN payload[d][k] = {"name", "value"}

\* A payload was sent whose cpu series lost an unparseable value and kept
\* the one after it, whose memory series lost a zero and kept the value in
\* front of it, and whose netrx series holds two points of one name.
C27_Witness ==
    /\ taskPc = "sleep" /\ tickMsgs = <<"data">>
    /\ responses["cpu"] = [kind |-> "ok", body |-> <<Sample(<< >>, "x"), Sample(ServiceLabel, "5")>>]
    /\ payload["cpu"] = <<[name |-> MyService, value |-> 5]>>
    /\ responses["memory"] = [kind |-> "ok", body |-> <<Sample(ScopeLabel, "3"), Sample(ServiceLabel, "0")>>]
    /\ payload["memory"] = <<[name |-> Hash12, value |-> 3]>>
    /\ Len(payload["netrx"]) = 2

(***************************************************************************)
(* Further properties of the log extraction.                               *)
(***************************************************************************)
\* Whether short is the text of the first characters of line.
IsPrefix(short, line) ==
    /\ Len(short) <= Len(line)
    /\ \A k \in 1..Len(short) :
          /\ short[k].text = line[k].text
          /\ IF k < Len(short) THEN short[k].len = line[k].len
             ELSE short[k].len <= line[k].len /\ short[k].len > 0

\* C30: of every ContainerError row written by the parser the summary has
\* at most 1024 characters and is the first line of the full text cut to
\* its first 1024 characters (the whole line when it is not longer), and
\* the full text is not empty.
C30_SummaryBound ==
    \A k \in DOMAIN errorRows :
        LET row == errorRows[k]
            first == row.error_message[1]
        IN  /\ row.error_message # << >>
            /\ LineLen(first) > 0
            /\ LineLen(row.short_message) <= SummaryLimit
            /\ IsPrefix(row.short_message, first)
            /\ LineLen(row.short_message) =
                   IF LineLen(first) <= SummaryLimit THEN LineLen(first)
                   ELSE SummaryLimit
            /\ LineLen(first) <= SummaryLimit => row.short_message = first

\* Two rows were written, one whose first line is longer than 1024
\* characters and one whose first line is shorter.
C30_Witness ==
    /\ parser.pc = "returned"
    /\ Len(errorRows) = 2
    /\ errorRows[1].error_message = <<LineLong, LineInfo>>
    /\ errorRows[1].short_message = <<Word("ERROR", 5), Blank, Word("dump", 1018)>>
    /\ errorRows[2].error_message = <<LineBoom>>
    /\ errorRows[2].short_message = LineBoom

(***************************************************************************)
(* Further properties of the runtime adapter.                              *)
(***************************************************************************)
\* C28: get_all_containers on a descriptor without restart count, labels or
\* network settings, and get_container_stats on a document without memory
\* usage, memory limit or cpu counts, do not raise and answer the record
\* with zero or empty in place of what is missing.
C28_PartialDataTolerance ==
    /\ unitInfo.outcome # "none" =>
          /\ unitInfo.outcome = "record"
          /\ unitInfo.restart_count = Get(attrs.RestartCount, 0)
          /\ unitInfo.labels = Get(attrs.Labels, {})
          /\ Missing(attrs.NetworkSettings) => unitInfo.networks = << >>
    /\ (statsResult.outcome # "none" /\ statsDoc.fetch = "ok"
            /\ ~Missing(statsDoc.system) /\ ~Missing(statsDoc.pre_total)
            /\ ~Missing(statsDoc.pre_system)) =>
          /\ statsResult.outcome = "record"
          /\ statsResult.memory_limit = Get(statsDoc.limit, 0)
          /\ statsResult.memory_usage = Get(statsDoc.usage, 0)

(***************************************************************************)
(* Properties of deactivated scopes.                                       *)
(***************************************************************************)
\* C29: a sync request for a host or a cluster whose is_active is false is
\* answered "not found" at once, without runtime call, upsert, delete or
\* sample (the persisted state is what it was), no handler enters its loop
\* for such a scope, and the deactivation deletes no row.
C29_DeactivatedNotSynced ==
    [][/\ \A p \in Procs :
             /\ (pass[p].pc # "loop" /\ pass'[p].pc = "loop") =>
                    hostActive[pass'[p].host]
             /\ (pass[p].pc = "idle" /\ pass'[p].pc # "idle"
                     /\ ~hostActive[pass'[p].host]) =>
                    /\ pass'[p].pc = "done" /\ pass'[p].result = "notfound"
                    /\ pass'[p].live = << >> /\ pass'[p].synced = 0
                    /\ containers' = containers /\ metrics' = metrics
             /\ pass[p].result = "notfound" =>
                    containers' = containers /\ metrics' = metrics
       /\ \A h \in Hosts : (hostActive[h] /\ ~hostActive'[h]) =>
             containers' = containers /\ metrics' = metrics
       /\ (kpass.pc \in {"idle", "done"} /\ kpass'.pc \notin {"idle", "done"}) =>
             kubeDb.is_active
       /\ (kpass.pc = "idle" /\ kpass'.pc # "idle" /\ ~kubeDb.is_active) =>
             /\ kpass'.pc = "done" /\ kpass'.result = "notfound"
             /\ kubeDb' = kubeDb
       /\ kpass.result = "notfound" => kubeDb' = kubeDb
       /\ (kubeDb.is_active /\ ~kubeDb'.is_active) =>
             [kubeDb' EXCEPT !.is_active = TRUE] = kubeDb]_vars

\* A host that was synced (it has a container row with a sample) and then
\* deactivated: the request for it is answered "not found", the rows are
\* there.
C29_Witness ==
    /\ ~hostActive["h1"]
    /\ pass["p1"].pc = "done" /\ pass["p1"].result = "notfound"
    /\ pass["p1"].host = "h1"
    /\ \E c \in Ids : containers["h1"][c] # "absent" /\ metrics["h1"][c] > 0

(***************************************************************************)
(* Properties of interleaved passes.                                       *)
(***************************************************************************)
\* C23: when two passes for one host have both run to their answer, their
\* steps interleaved in any way, the persisted ids of the host are the ids
\* of one of the two lists, and every unit of the list of the pass that
\* ended last is persisted.
C23_LastWriteWins ==
    \A p, q \in Procs :
        (/\ p # q
         /\ pass[p].pc = "done" /\ pass[p].result = "success"
         /\ pass[q].pc = "done" /\ pass[q].result = "success"
         /\ pass[p].host = pass[q].host
         /\ pass[p].rank = 1 /\ pass[q].rank = 2) =>
            /\ Persisted(pass[q].host) \in
                   {LiveIds(pass[p].live), LiveIds(pass[q].live)}
            /\ LiveIds(pass[q].live) \subseteq Persisted(pass[q].host)

\* C24: a step of a pass for one host changes no container row and no
\* metric row of another host, whatever the other worker is doing; rows
\* change only by a step of a pass; and the command, at the end of one
\* host's pass, failed or not, goes on with the next host of its list.
C24_ScopeIsolation ==
    [][/\ \A p \in Procs : pass'[p] # pass[p] =>
              \A h \in Hosts \ {pass[p].host} :
                  containers'[h] = containers[h] /\ metrics'[h] = metrics[h]
       /\ (containers' # containers \/ metrics' # metrics) =>
              \E p \in Procs : pass'[p] # pass[p]
       /\ \A p \in Procs :
              (/\ pass[p].entry = "command" /\ pass[p].pc = "done"
               /\ pass[p].todo # << >>
               /\ pass'[p] # pass[p]) =>
                  /\ pass'[p].pc # "idle"
                  /\ pass'[p].host = Head(pass[p].todo)
                  /\ pass'[p].todo = Tail(pass[p].todo)]_vars

\* The command failed to connect to h1 and has synced h2 to the end, while
\* the view is in the middle of a pass for h1 that has written a row; the
\* sample of h1 is still there.
C24_Witness ==
    /\ pass["p1"].entry = "command" /\ pass["p1"].host = "h2"
    /\ pass["p1"].prior = <<[host |-> "h1", result |-> "error"]>>
    /\ pass["p1"].pc = "done" /\ pass["p1"].result = "success"
    /\ pass["p1"].deleted = {"b"}
    /\ pass["p2"].entry = "view" /\ pass["p2"].host = "h1"
    /\ pass["p2"].pc = "loop" /\ pass["p2"].created = {"a"}
    /\ metrics["h1"]["b"] = 1 /\ metrics["h2"]["b"] = 0

(***************************************************************************)
(* Properties of the tables.                                               *)
(***************************************************************************)
\* C21: in every state reached by calls of update_or_create and prunes,
\* interleaved in any way, no two DockerContainer rows have the same
\* (host, container_id) and no two Container rows the same (pod, name).
C21_Uniqueness ==
    \A t \in Tables, k \in RowKeys : rowCount[t][k] <= 1

\* Two handlers found no Container row for the same key; the INSERT of the
\* second was rejected and it is about to read the row of the first. A
\* DockerContainer row was pruned and written again.
C21_Witness ==
    /\ uoc["p2"] = [pc |-> "retry", table |-> "Container", key |-> "k1"]
    /\ uoc["p1"].pc = "idle"
    /\ rowCount["Container"]["k1"] = 1
    /\ rowCount["DockerContainer"]["k2"] = 1

====
